---- MODULE Spec2Model ----
(***************************************************************************)
(* A model of resync.py: the metadata index built by retrieve_metadata,    *)
(* the Node tree built for push and pull, curb_tree, and the clean mode.   *)
(*                                                                         *)
(* Strings the program takes apart (names, paths, exclude patterns) are    *)
(* sequences of tokens, so that concatenation, prefix matching and         *)
(* endswith are computed.  Python dicts are functions; Python's None is    *)
(* the value None below, which is no uuid of the model.                    *)
(***************************************************************************)
EXTENDS Integers, Sequences, FiniteSets, TLC

VARIABLES
    args,                          \* the parsed command line (args.*)
    raw,                           \* the *.metadata files on the device, in ls order
    pos,                           \* retrieve_metadata: records consumed so far
    status,                        \* "loading", "loaded", or the exception that ended the run
    metadata_by_uuid,
    metadata_by_name,
    metadata_by_parent,
    metadata_by_name_and_parent,
    pc,                            \* position of the main program after the load
    root,                          \* push: the list root; pull: the list anchors
    dids,                          \* the number of gen_did calls so far
    prepdir,                       \* the files rendered into args.prepdir
    uploaded,                      \* the files rsync copied to the device
    downloaded,                    \* the anchors download was called on
    curbing,                       \* the paths curb_tree reported, in order
    ssh_calls,                     \* the commands handed to ssh(), in order
    xochitl,                       \* the stems that have files in xochitl_dir
    orphans,                       \* the files in xochitl_dir without a *.metadata
    md5sums,                       \* the lines of cat *.md5sum
    printed,                       \* what the cleanup passes printed, in order
    returned,                      \* the value each cleanup pass returned
    locals                         \* the local variables of the running pass

index == <<metadata_by_uuid, metadata_by_name, metadata_by_parent,
           metadata_by_name_and_parent>>

tree == <<root, dids, prepdir, uploaded, downloaded, curbing>>

clean == <<xochitl, orphans, md5sums, printed, returned, locals>>

vars == <<args, raw, pos, status, metadata_by_uuid, metadata_by_name,
          metadata_by_parent, metadata_by_name_and_parent, pc, root, dids, prepdir,
          uploaded, downloaded, curbing, ssh_calls, xochitl, orphans, md5sums,
          printed, returned, locals>>

---------------------------------------------------------------------------
(* Bounds.                                                                 *)

MaxRecords == 3

---------------------------------------------------------------------------
(* Values.                                                                 *)

None == "None"

\* The stems of the *.metadata files, in the order ls -1 and the glob list them.
UUIDS == <<"u1", "u2", "u3", "u4", "u5">>

Uuids(n) == {UUIDS[i] : i \in 1..n}

UuidRank(u) == CHOOSE i \in 1..Len(UUIDS) : UUIDS[i] = u

Names == {<<"a">>, <<"b">>}

\* A python dict: a function; dict() is the function of empty domain.
EmptyDict == [k \in {} |-> {}]

Put(d, k, v) == [x \in (DOMAIN d) \cup {k} |-> IF x = k THEN v ELSE d[x]]

Del(d, k) == [x \in (DOMAIN d) \ {k} |-> d[x]]

---------------------------------------------------------------------------
(* fullpath: "/" + visibleName below the root, else the parent's path      *)
(* first.  metadata_by_uuid[parent_uuid] raises KeyError when the parent   *)
(* is not in the index; a parent cycle ends in python's RecursionError,    *)
(* which the fuel stands for (a chain longer than the index is a cycle).   *)

RECURSIVE fullpath_rec(_, _, _)
fullpath_rec(metadata, by_uuid, fuel) ==
    IF metadata.parent = ""
    THEN [err |-> "ok", path |-> <<"/">> \o metadata.visibleName]
    ELSE IF metadata.parent \notin DOMAIN by_uuid
    THEN [err |-> "KeyError", path |-> <<>>]
    ELSE IF fuel = 0
    THEN [err |-> "RecursionError", path |-> <<>>]
    ELSE LET up == fullpath_rec(by_uuid[metadata.parent], by_uuid, fuel - 1)
         IN  IF up.err # "ok" THEN up
             ELSE [err |-> "ok", path |-> up.path \o <<"/">> \o metadata.visibleName]

fullpath(metadata, by_uuid) ==
    fullpath_rec(metadata, by_uuid, Cardinality(DOMAIN by_uuid) + 1)

---------------------------------------------------------------------------
(* retrieve_metadata.  The index is the four dicts; ix.status is "loading" *)
(* until the loop ends or an exception leaves it.                          *)

SoftDeleted(metadata) == metadata.deleted \/ metadata.parent = "trash"

EmptyIndex ==
    [by_uuid |-> EmptyDict, by_name |-> EmptyDict, by_parent |-> EmptyDict,
     by_name_and_parent |-> EmptyDict, status |-> "loading"]

\* The raise of line 225 formats its message first: fullpath runs before
\* FileCollision is constructed, and its exception is the one that leaves.
CollisionRaise(metadata, by_uuid) ==
    LET fp == fullpath(metadata, by_uuid)
    IN  IF fp.err = "ok" THEN "FileCollision" ELSE fp.err

\* The body of the loop for one (path, metadata) pair.
load_record_keeps_trash(ix, uuid, metadata) ==
    LET name   == metadata.visibleName
        parent == metadata.parent
    IN  IF metadata.deleted THEN ix
        ELSE [by_uuid   |-> Put(ix.by_uuid, uuid, metadata),
              by_name   |-> Put(ix.by_name, name,
                                Put(IF name \in DOMAIN ix.by_name
                                    THEN ix.by_name[name] ELSE EmptyDict,
                                    uuid, metadata)),
              by_parent |-> Put(ix.by_parent, parent,
                                Put(IF parent \in DOMAIN ix.by_parent
                                    THEN ix.by_parent[parent] ELSE EmptyDict,
                                    uuid, metadata)),
              by_name_and_parent |->
                  IF <<name, parent>> \in DOMAIN ix.by_name_and_parent
                  THEN ix.by_name_and_parent
                  ELSE Put(ix.by_name_and_parent, <<name, parent>>,
                           <<uuid, metadata>>),
              status |-> IF <<name, parent>> \in DOMAIN ix.by_name_and_parent
                         THEN CollisionRaise(metadata, Put(ix.by_uuid, uuid, metadata))
                         ELSE "loading"]

load_record(ix, uuid, metadata) ==
    LET name      == metadata.visibleName
        parent    == metadata.parent
        by_uuid   == Put(ix.by_uuid, uuid, metadata)
        by_name   == Put(ix.by_name, name,
                         Put(IF name \in DOMAIN ix.by_name
                             THEN ix.by_name[name] ELSE EmptyDict,
                             uuid, metadata))
        by_parent == Put(ix.by_parent, parent,
                         Put(IF parent \in DOMAIN ix.by_parent
                             THEN ix.by_parent[parent] ELSE EmptyDict,
                             uuid, metadata))
    IN  IF SoftDeleted(metadata)
        THEN ix
        ELSE IF <<name, parent>> \in DOMAIN ix.by_name_and_parent
        THEN [by_uuid |-> by_uuid, by_name |-> by_name, by_parent |-> by_parent,
              by_name_and_parent |-> ix.by_name_and_parent,
              status |-> CollisionRaise(metadata, by_uuid)]
        ELSE [by_uuid |-> by_uuid, by_name |-> by_name, by_parent |-> by_parent,
              by_name_and_parent |->
                  Put(ix.by_name_and_parent, <<name, parent>>, <<uuid, metadata>>),
              status |-> "loading"]

RECURSIVE retrieve_metadata_from(_, _, _)
retrieve_metadata_from(ix, files, i) ==
    IF ix.status # "loading" THEN ix
    ELSE IF i > Len(files) THEN [ix EXCEPT !.status = "loaded"]
    ELSE retrieve_metadata_from(load_record(ix, files[i].path, files[i].metadata),
                                files, i + 1)

retrieve_metadata(files) == retrieve_metadata_from(EmptyIndex, files, 1)

Index ==
    [by_uuid |-> metadata_by_uuid, by_name |-> metadata_by_name,
     by_parent |-> metadata_by_parent,
     by_name_and_parent |-> metadata_by_name_and_parent, status |-> status]

SetIndex(ix) ==
    /\ metadata_by_uuid' = ix.by_uuid
    /\ metadata_by_name' = ix.by_name
    /\ metadata_by_parent' = ix.by_parent
    /\ metadata_by_name_and_parent' = ix.by_name_and_parent
    /\ status' = ix.status

\* One iteration of the loop.
LoadRecord ==
    /\ status = "loading"
    /\ pos < Len(raw)
    /\ pos' = pos + 1
    /\ SetIndex(load_record(Index, raw[pos + 1].path, raw[pos + 1].metadata))
    /\ UNCHANGED <<args, raw, pc, tree, ssh_calls, clean>>

\* The loop is exhausted: retrieve_metadata returns.
LoadEnd ==
    /\ status = "loading"
    /\ pos = Len(raw)
    /\ status' = "loaded"
    /\ pc' = "main"
    /\ UNCHANGED <<args, raw, pos, index, tree, ssh_calls, clean>>

---------------------------------------------------------------------------
(* remove_uuid.                                                            *)

\* remove_uuid forgetting the siblings.
remove_uuid_by_id_only(u, by_uuid, by_parent) ==
    [by_uuid |-> Del(by_uuid, u), by_parent |-> by_parent]

remove_uuid_keep_empty(u, by_uuid, by_parent) ==
    LET parent == by_uuid[u].parent
    IN  IF parent # ""
        THEN [by_uuid   |-> Del(by_uuid, u),
              by_parent |-> Put(by_parent, parent, Del(by_parent[parent], u))]
        ELSE [by_uuid |-> Del(by_uuid, u), by_parent |-> by_parent]

remove_uuid(u, by_uuid, by_parent) ==
    LET metadata == by_uuid[u]
        parent   == metadata.parent
    IN  IF parent # ""
        THEN LET siblings == Del(by_parent[parent], u)
             IN  [by_uuid   |-> Del(by_uuid, u),
                  by_parent |-> IF DOMAIN siblings = {}
                                THEN Del(by_parent, parent)
                                ELSE Put(by_parent, parent, siblings)]
        ELSE [by_uuid |-> Del(by_uuid, u), by_parent |-> by_parent]

RemoveUuid(u) ==
    /\ status = "loaded"
    /\ pc = "main"
    /\ u \in DOMAIN metadata_by_uuid
    /\ LET r == remove_uuid(u, metadata_by_uuid, metadata_by_parent)
       IN  /\ metadata_by_uuid' = r.by_uuid
           /\ metadata_by_parent' = r.by_parent
    /\ UNCHANGED <<args, raw, pos, status, metadata_by_name,
                   metadata_by_name_and_parent, pc, tree, ssh_calls, clean>>

---------------------------------------------------------------------------
(* The index specification: a load record by record, then remove_uuid      *)
(* calls on ids of by-id.                                                  *)

Metadata(names, parents, types, stamps) ==
    [visibleName : names, parent : parents, type : types, deleted : BOOLEAN,
     lastModified : stamps]

\* files is the listing of *.metadata with the stems paths[1..k], k <= n, any
\* content, no record naming itself as its parent.
Files(files, paths, n, metadatas) ==
    \E k \in 0..n :
        \E f \in [1..k -> metadatas] :
            /\ \A i \in 1..k : f[i].parent # paths[i]
            /\ files = [i \in 1..k |-> [path |-> paths[i], metadata |-> f[i]]]

NoArgs == [mode |-> "none"]

NoTree ==
    /\ root = <<>>
    /\ dids = 0
    /\ prepdir = {}
    /\ uploaded = {}
    /\ downloaded = <<>>
    /\ curbing = <<>>

NoClean ==
    /\ xochitl = {}
    /\ orphans = 0
    /\ md5sums = <<>>
    /\ printed = <<>>
    /\ returned = <<>>
    /\ locals = EmptyDict

Init ==
    /\ Files(raw, UUIDS, MaxRecords,
             Metadata(Names, {"", "trash"} \cup Uuids(MaxRecords),
                      {"CollectionType"}, {100}))
    /\ args = NoArgs
    /\ pos = 0
    /\ status = "loading"
    /\ metadata_by_uuid = EmptyDict
    /\ metadata_by_name = EmptyDict
    /\ metadata_by_parent = EmptyDict
    /\ metadata_by_name_and_parent = EmptyDict
    /\ pc = "load"
    /\ NoTree
    /\ ssh_calls = <<>>
    /\ NoClean

Next ==
    \/ LoadRecord
    \/ LoadEnd
    \/ \E u \in Uuids(MaxRecords) : RemoveUuid(u)

Spec == Init /\ [][Next]_vars

---------------------------------------------------------------------------
(* The document tree.  A Node is a record; node.parent, the back reference *)
(* used for get_full_path and for the parent key of the lookup, is kept as *)
(* parent_path, the parent's full path (<<>> when parent is None), and the *)
(* parent's id is handed down the recursion.  node.render is the method    *)
(* a call of render reaches: the class's, or the instance attribute that   *)
(* line 633 binds.                                                         *)

NoParent == [isNone |-> TRUE, id |-> None, path |-> <<>>]

get_full_path(node) ==
    IF node.parent_path = <<>> THEN node.name
    ELSE node.parent_path \o <<"/">> \o node.name

AsParent(node) == [isNone |-> FALSE, id |-> node.id, path |-> get_full_path(node)]

get_metadata_by_name_and_parent(name, parent, by_name_and_parent) ==
    IF <<name, parent>> \in DOMAIN by_name_and_parent
    THEN [found |-> TRUE, uuid |-> by_name_and_parent[<<name, parent>>][1]]
    ELSE [found |-> FALSE, uuid |-> None]

\* Node.__init__, with the doctype the subclass sets.
NodeInit(name, parent, doctype, by_name_and_parent) ==
    LET metadata == get_metadata_by_name_and_parent(
                        name, IF parent.isNone THEN "" ELSE parent.id,
                        by_name_and_parent)
    IN  [name          |-> name,
         parent_path   |-> parent.path,
         id            |-> metadata.uuid,
         exists        |-> metadata.found,
         gets_modified |-> FALSE,
         doctype       |-> doctype,
         render        |-> IF doctype = "DocumentType"
                           THEN "Document.render" ELSE "Folder.render",
         children      |-> <<>>]

Folder(name, parent, by_name_and_parent) ==
    NodeInit(name, parent, "CollectionType", by_name_and_parent)

Document(name, parent, by_name_and_parent) ==
    NodeInit(name, parent, "DocumentType", by_name_and_parent)

\* gen_did: uuid4 gives an id no file and no earlier call has; the n-th call
\* of a run gives GENS[n].
GENS == <<"g1", "g2", "g3", "g4", "g5", "g6", "g7", "g8">>

gen_did(n) == GENS[n + 1]

\* pathlib's suffix of a name: its last token when that is an extension.
Extensions == {".pdf", ".epub", ".txt"}

suffix(name) ==
    IF Len(name) > 1 /\ name[Len(name)] \in Extensions THEN name[Len(name)] ELSE ""

\* --if-exists dropping the id of the record in every policy but skip.
policy_discard_id(node, if_exists, gen) ==
    IF ~node.exists \/ if_exists = "skip" THEN [node |-> node, gen |-> gen]
    ELSE IF if_exists = "overwrite"
    THEN [node |-> [node EXCEPT !.id = None, !.exists = FALSE,
                                !.gets_modified = TRUE], gen |-> gen]
    ELSE IF if_exists = "doconly"
    THEN [node |-> [node EXCEPT !.id = None, !.exists = FALSE,
                                !.gets_modified = TRUE, !.render = "lambda"],
          gen |-> gen]
    ELSE [node |-> [node EXCEPT !.id = gen_did(gen), !.exists = FALSE],
          gen |-> gen + 1]

policy(node, if_exists, gen) ==
    IF ~node.exists \/ if_exists = "skip" THEN [node |-> node, gen |-> gen]
    ELSE IF if_exists = "overwrite"
    THEN [node |-> [node EXCEPT !.exists = FALSE, !.gets_modified = TRUE], gen |-> gen]
    ELSE IF if_exists = "doconly"
    THEN [node |-> [node EXCEPT !.exists = FALSE, !.gets_modified = TRUE,
                                !.render = "lambda"], gen |-> gen]
    ELSE [node |-> [node EXCEPT !.id = gen_did(gen), !.exists = FALSE],
          gen |-> gen + 1]

\* construct_node_tree_from_disk on the entry at basepath: a directory
\* [name, isdir, entries], entries in os.listdir order, or a file.  The result
\* is [some, node, gen]; some is FALSE where the code returns None.
RECURSIVE construct_node_tree_from_disk(_, _, _, _, _)
RECURSIVE construct_entries(_, _, _, _, _, _)

construct_entries(entries, i, parent, by_name_and_parent, if_exists, gen) ==
    IF i > Len(entries) THEN [nodes |-> <<>>, gen |-> gen]
    ELSE LET child == construct_node_tree_from_disk(
                          entries[i], parent, by_name_and_parent, if_exists, gen)
             rest  == construct_entries(entries, i + 1, parent, by_name_and_parent,
                                        if_exists, child.gen)
         IN  [nodes |-> (IF child.some THEN <<child.node>> ELSE <<>>) \o rest.nodes,
              gen   |-> rest.gen]

construct_node_tree_from_disk(entry, parent, by_name_and_parent, if_exists, gen) ==
    IF entry.isdir
    THEN LET node == Folder(entry.name, parent, by_name_and_parent)
             sub  == construct_entries(entry.entries, 1, AsParent(node),
                                       by_name_and_parent, if_exists, gen)
         IN  [some |-> sub.nodes # <<>>,
              node |-> [node EXCEPT !.children = sub.nodes],
              gen  |-> sub.gen]
    ELSE IF suffix(entry.name) \in {".pdf", ".epub"}
    THEN LET made == policy(Document(entry.name, parent, by_name_and_parent),
                            if_exists, gen)
         IN  [some |-> TRUE, node |-> made.node, gen |-> made.gen]
    ELSE [some |-> FALSE,
          node |-> Document(entry.name, parent, by_name_and_parent),
          gen  |-> gen]

\* Lines 661-674: the chain of folders of --output, the documents below the
\* innermost.
RECURSIVE destination_tree(_, _, _, _, _, _, _)
destination_tree(folders, i, parent, documents, by_name_and_parent, if_exists, gen) ==
    LET node == Folder(folders[i], parent, by_name_and_parent)
    IN  IF i = Len(folders)
        THEN LET sub == construct_entries(documents, 1, AsParent(node),
                                          by_name_and_parent, if_exists, gen)
             IN  [node |-> [node EXCEPT !.children = sub.nodes], gen |-> sub.gen]
        ELSE LET sub == destination_tree(folders, i + 1, AsParent(node), documents,
                                         by_name_and_parent, if_exists, gen)
             IN  [node |-> [node EXCEPT !.children = <<sub.node>>], gen |-> sub.gen]

\* Lines 657-681: the list root of push_to_remarkable.
push_roots(a, by_name_and_parent) ==
    IF a.destination # <<>>
    THEN LET t == destination_tree(a.destination, 1, NoParent, a.documents,
                                   by_name_and_parent, a.if_exists, 0)
         IN  [nodes |-> <<t.node>>, gen |-> t.gen]
    ELSE construct_entries(a.documents, 1, NoParent, by_name_and_parent,
                           a.if_exists, 0)

---------------------------------------------------------------------------
(* curb_tree.  An exclude pattern is a literal, with or without a closing  *)
(* "$": re.match anchors a pattern at the start of the path only.          *)

IsPrefix(lit, path) == Len(lit) <= Len(path) /\ SubSeq(path, 1, Len(lit)) = lit

re_match(exc, path) == IF exc.end THEN exc.lit = path ELSE IsPrefix(exc.lit, path)

curbs(excludelist, path) ==
    \E i \in 1..Len(excludelist) : re_match(excludelist[i], path)

\* The result is [curbed, node, log]: what curb_tree returns, the node as
\* the call leaves it, and the paths it reports with logmsg(2, "curbing ...").
RECURSIVE curb_tree(_, _)
RECURSIVE curb_children(_, _, _)

curb_children(children, i, excludelist) ==
    IF i > Len(children) THEN [nodes |-> <<>>, log |-> <<>>]
    ELSE LET ch   == curb_tree(children[i], excludelist)
             rest == curb_children(children, i + 1, excludelist)
         IN  [nodes |-> (IF ch.curbed THEN <<>> ELSE <<ch.node>>) \o rest.nodes,
              log   |-> ch.log \o rest.log]

curb_tree_children_first(node, excludelist) ==
    LET sub == curb_children(node.children, 1, excludelist)
    IN  [curbed |-> curbs(excludelist, get_full_path(node)),
         node   |-> [node EXCEPT !.children = sub.nodes],
         log    |-> IF curbs(excludelist, get_full_path(node))
                    THEN <<get_full_path(node)>> ELSE sub.log]

curb_tree(node, excludelist) ==
    IF curbs(excludelist, get_full_path(node))
    THEN [curbed |-> TRUE, node |-> node, log |-> <<get_full_path(node)>>]
    ELSE LET sub == curb_children(node.children, 1, excludelist)
         IN  [curbed |-> FALSE,
              node   |-> [node EXCEPT !.children = sub.nodes],
              log    |-> sub.log]

\* Lines 684-689: the roots push keeps, each curbed.
curbed_roots(roots, excludelist) == curb_children(roots, 1, excludelist)

---------------------------------------------------------------------------
(* render.  prepdir is the set of files written, <<id, extension>>; the    *)
(* directory {id} has the extension "".  st is [prepdir, gen, err]: err    *)
(* names the exception that left a render call, and nothing runs after it. *)

render_common(node, st) ==
    LET id == IF node.id = None THEN gen_did(st.gen) ELSE node.id
    IN  [node |-> [node EXCEPT !.id = id],
         st   |-> [st EXCEPT !.gen = IF node.id = None THEN st.gen + 1 ELSE st.gen,
                             !.prepdir = st.prepdir
                                 \cup {<<id, ".metadata">>, <<id, ".content">>}]]

\* Document.render, lines 432-438.  os.makedirs raises when the directory is
\* there already.
Document_render(node, st) ==
    IF node.exists THEN [node |-> node, st |-> st]
    ELSE LET c == render_common(node, st)
         IN  IF <<c.node.id, "">> \in c.st.prepdir
             THEN [node |-> c.node, st |-> [c.st EXCEPT !.err = "FileExistsError"]]
             ELSE [node |-> c.node,
                   st   |-> [c.st EXCEPT !.prepdir =
                                 c.st.prepdir \cup {<<c.node.id, "">>,
                                                    <<c.node.id, ".thumbnails">>,
                                                    <<c.node.id, suffix(node.name)>>}]]

\* The attribute line 633 binds is a plain function of (self, prepdir); the
\* call ch.render(prepdir) gives it one argument and raises TypeError.
lambda_render(node, st) == [node |-> node, st |-> [st EXCEPT !.err = "TypeError"]]

RECURSIVE render(_, _)
RECURSIVE render_children(_, _, _)

render_children(children, i, st) ==
    IF i > Len(children) \/ st.err # "ok" THEN [nodes |-> children, st |-> st]
    ELSE LET r    == render(children[i], st)
             rest == render_children([children EXCEPT ![i] = r.node], i + 1, r.st)
         IN  rest

render(node, st) ==
    IF node.render = "lambda" THEN lambda_render(node, st)
    ELSE IF node.render = "Document.render" THEN Document_render(node, st)
    ELSE LET c == IF node.exists THEN [node |-> node, st |-> st]
                  ELSE render_common(node, st)
             k == render_children(c.node.children, 1, c.st)
         IN  [node |-> [c.node EXCEPT !.children = k.nodes], st |-> k.st]

---------------------------------------------------------------------------
(* Folder.build.  The children come in the order of the dict, which is the *)
(* order of the load.  A parent cycle below the anchor never ends: python  *)
(* raises RecursionError, which the fuel stands for.                       *)

get_metadata_by_parent(parent, by_parent) ==
    IF parent \in DOMAIN by_parent THEN by_parent[parent] ELSE EmptyDict

\* The keys of d in the order of the listing.
RECURSIVE items(_, _, _)
items(d, files, i) ==
    IF i > Len(files) THEN <<>>
    ELSE (IF files[i].path \in DOMAIN d THEN <<files[i].path>> ELSE <<>>)
         \o items(d, files, i + 1)

endswith_pdf(name) == Len(name) > 0 /\ name[Len(name)] = ".pdf"

RECURSIVE build(_, _, _, _)
RECURSIVE build_children(_, _, _, _, _, _)

build_children(node, keys, i, ix, files, fuel) ==
    IF i > Len(keys) THEN [nodes |-> <<>>, err |-> "ok"]
    ELSE LET uuid     == keys[i]
             metadata == get_metadata_by_parent(node.id, ix.by_parent)[uuid]
             ch == IF metadata.type = "CollectionType"
                   THEN Folder(metadata.visibleName, AsParent(node),
                               ix.by_name_and_parent)
                   ELSE Document(IF endswith_pdf(metadata.visibleName)
                                 THEN metadata.visibleName
                                 ELSE metadata.visibleName \o <<".pdf">>,
                                 AsParent(node), ix.by_name_and_parent)
             built == build([ch EXCEPT !.id = uuid], ix, files, fuel - 1)
         IN  IF built.err # "ok" THEN [nodes |-> <<>>, err |-> built.err]
             ELSE LET rest == build_children(node, keys, i + 1, ix, files, fuel)
                  IN  [nodes |-> <<built.node>> \o rest.nodes, err |-> rest.err]

build(node, ix, files, fuel) ==
    IF node.doctype = "DocumentType" THEN [node |-> node, err |-> "ok"]
    ELSE IF fuel = 0 THEN [node |-> node, err |-> "RecursionError"]
    ELSE LET keys == items(get_metadata_by_parent(node.id, ix.by_parent), files, 1)
             sub  == build_children(node, keys, 1, ix, files, fuel)
         IN  [node |-> [node EXCEPT !.children = node.children \o sub.nodes],
              err  |-> sub.err]

---------------------------------------------------------------------------
(* The main program: retrieve_metadata(), then the mode.                   *)

RetrieveMetadata ==
    /\ pc = "load"
    /\ status = "loading"
    /\ SetIndex(retrieve_metadata(raw))
    /\ pc' = "main"
    /\ UNCHANGED <<args, raw, pos, tree, ssh_calls, clean>>

Running(at) == status = "loaded" /\ pc = at

---------------------------------------------------------------------------
(* push_to_remarkable.                                                     *)

\* Lines 657-681.
PushConstruct ==
    /\ Running("main")
    /\ args.mode = "push"
    /\ LET r == push_roots(args, metadata_by_name_and_parent)
       IN  /\ root' = r.nodes
           /\ dids' = r.gen
    /\ pc' = "push_curb"
    /\ UNCHANGED <<args, raw, pos, status, index, prepdir, uploaded, downloaded,
                   curbing, ssh_calls, clean>>

\* Lines 683-689.
PushCurb ==
    /\ Running("push_curb")
    /\ LET r == curbed_roots(root, args.exclude_patterns)
       IN  /\ root' = r.nodes
           /\ curbing' = curbing \o r.log
    /\ pc' = IF args.dryrun THEN "push_transfer" ELSE "push_render"
    /\ UNCHANGED <<args, raw, pos, status, index, dids, prepdir, uploaded,
                   downloaded, ssh_calls, clean>>

\* Lines 698-705: for r in root: r.render(args.prepdir).
PushRender ==
    /\ Running("push_render")
    /\ LET r == render_children(root, 1, [prepdir |-> prepdir, gen |-> dids,
                                          err |-> "ok"])
       IN  /\ root' = r.nodes
           /\ dids' = r.st.gen
           /\ prepdir' = r.st.prepdir
           /\ status' = IF r.st.err = "ok" THEN status ELSE r.st.err
           /\ pc' = IF r.st.err # "ok" \/ args.debug
                    THEN "push_finally" ELSE "push_transfer"
    /\ UNCHANGED <<args, raw, pos, index, uploaded, downloaded, curbing,
                   ssh_calls, clean>>

\* Lines 707-717: rsync, with -n in a dry run, then the restart.
PushTransfer ==
    /\ Running("push_transfer")
    /\ uploaded' = IF args.dryrun THEN {} ELSE prepdir
    /\ ssh_calls' = IF args.dryrun THEN ssh_calls
                    ELSE Append(ssh_calls, [cmd |-> "restart"])
    /\ pc' = "push_finally"
    /\ UNCHANGED <<args, raw, pos, status, index, root, dids, prepdir, downloaded,
                   curbing, clean>>

\* Lines 719-721, with args.prepdir the default directory.
PushFinally ==
    /\ pc = "push_finally"
    /\ prepdir' = IF args.debug THEN prepdir ELSE {}
    /\ pc' = "done"
    /\ UNCHANGED <<args, raw, pos, status, index, root, dids, uploaded, downloaded,
                   curbing, ssh_calls, clean>>

---------------------------------------------------------------------------
(* pull_from_remarkable.  A document is the list doc.split('/').           *)

get_metadata_by_name(name, by_name) ==
    IF name \in DOMAIN by_name
    THEN [isNone |-> FALSE, dict |-> by_name[name]]
    ELSE [isNone |-> TRUE, dict |-> EmptyDict]

\* Lines 743-749: the parent (None without parents) of the anchor.
RECURSIVE local_anchor(_, _, _, _)
local_anchor(parents, i, parent, by_name_and_parent) ==
    IF i > Len(parents) THEN parent
    ELSE local_anchor(parents, i + 1,
                      AsParent(Folder(parents[i], parent, by_name_and_parent)),
                      by_name_and_parent)

\* Lines 741-759.  metadata is the dict uuid -> record of the name, so
\* metadata['type'] is a KeyError unless a file has the stem "type", and is
\* then a record, never the string 'DocumentType'.
RECURSIVE pull_anchors(_, _, _)
pull_anchors(documents, i, ix) ==
    IF i > Len(documents) THEN [anchors |-> <<>>, err |-> "ok"]
    ELSE LET doc      == documents[i]
             target   == doc[Len(doc)]
             parent   == local_anchor(SubSeq(doc, 1, Len(doc) - 1), 1, NoParent,
                                      ix.by_name_and_parent)
             metadata == get_metadata_by_name(target, ix.by_name)
         IN  IF metadata.isNone THEN pull_anchors(documents, i + 1, ix)
             ELSE IF "type" \notin DOMAIN metadata.dict
             THEN [anchors |-> <<>>, err |-> "KeyError"]
             ELSE LET rest == pull_anchors(documents, i + 1, ix)
                  IN  [anchors |-> <<Folder(target, parent, ix.by_name_and_parent)>>
                                   \o rest.anchors,
                       err |-> rest.err]

\* Lines 731-759.
PullAnchors ==
    /\ Running("main")
    /\ args.mode = "pull"
    /\ IF args.if_exists \notin {"skip", "overwrite"}
       THEN /\ status' = "AssertionError"
            /\ UNCHANGED root
       ELSE LET r == pull_anchors(args.documents, 1, Index)
            IN  /\ status' = IF r.err = "ok" THEN status ELSE r.err
                /\ root' = IF r.err = "ok" THEN r.anchors ELSE <<>>
    /\ pc' = "pull_build"
    /\ UNCHANGED <<args, raw, pos, index, dids, prepdir, uploaded, downloaded,
                   curbing, ssh_calls, clean>>

\* Lines 762-765: build, curb and download, anchor after anchor.
RECURSIVE pull_loop(_, _, _, _, _)
pull_loop(anchors, i, ix, files, excludelist) ==
    IF i > Len(anchors)
    THEN [anchors |-> anchors, downloaded |-> <<>>, log |-> <<>>, err |-> "ok"]
    ELSE LET built == build(anchors[i], ix, files, Len(files) + 1)
         IN  IF built.err # "ok"
             THEN [anchors |-> anchors, downloaded |-> <<>>, log |-> <<>>,
                   err |-> built.err]
             ELSE LET a    == curb_tree(built.node, excludelist)
                      rest == pull_loop([anchors EXCEPT ![i] = a.node], i + 1, ix,
                                        files, excludelist)
                  IN  [anchors    |-> rest.anchors,
                       downloaded |-> (IF a.curbed THEN <<>> ELSE <<a.node>>)
                                      \o rest.downloaded,
                       log        |-> a.log \o rest.log,
                       err        |-> rest.err]

PullBuild ==
    /\ Running("pull_build")
    /\ LET r == pull_loop(root, 1, Index, raw, args.exclude_patterns)
       IN  /\ root' = r.anchors
           /\ downloaded' = r.downloaded
           /\ curbing' = curbing \o r.log
           /\ status' = IF r.err = "ok" THEN status ELSE r.err
    /\ pc' = "done"
    /\ UNCHANGED <<args, raw, pos, index, dids, prepdir, uploaded, ssh_calls, clean>>

---------------------------------------------------------------------------
(* The tree specification: a load, then a push or a pull.                  *)

MaxTreeRecords == 2

\* "type" is the one stem with which line 753 finds a key.
TreeStems == <<"type", "u1", "u2", "u3", "u4">>

\* Where a record of the tree inputs is: live under the root, under the first
\* or the second file, or soft-deleted by its flag or by the parent "trash".
Placements ==
    {<<"", FALSE>>, <<"type", FALSE>>, <<"u1", FALSE>>, <<"", TRUE>>,
     <<"type", TRUE>>, <<"trash", FALSE>>}

TreeMetadata ==
    {[visibleName |-> n[1], parent |-> p[1], type |-> n[2], deleted |-> p[2],
      lastModified |-> 100] :
        n \in {<< <<"a">>, "CollectionType" >>, << <<"b">>, "DocumentType" >>,
               << <<"b", ".pdf">>, "DocumentType" >>},
        p \in Placements}

File(name) == [name |-> name, isdir |-> FALSE, entries |-> <<>>]

Dir(name, entries) == [name |-> name, isdir |-> TRUE, entries |-> entries]

\* The local paths given to a push with what is on the disk at each, and
\* --output.
PushSources ==
    {[destination |-> <<>>,
      documents   |-> <<Dir(<<"a">>, <<File(<<"b", ".pdf">>), File(<<"b", ".txt">>)>>)>>],
     [destination |-> <<>>,
      documents   |-> <<Dir(<<"a">>, <<Dir(<<"a">>, <<>>)>>), File(<<"b", ".pdf">>),
                        File(<<"b", ".pdf">>)>>],
     [destination |-> << <<"a">> >>,
      documents   |-> <<File(<<"b", ".pdf">>)>>]}

\* The device paths given to a pull, each split at "/".
PullDocuments ==
    {<< << <<"a">> >> >>,
     << << <<"b">> >>, << <<"a">> >> >>,
     << << <<"a">>, <<"a">> >> >>}

NoExcludes == <<>>

SomeExcludes == <<[lit |-> <<"a", "/", "b">>, end |-> FALSE]>>

PushOptions ==
    {[exclude_patterns |-> NoExcludes, dryrun |-> FALSE, debug |-> FALSE],
     [exclude_patterns |-> SomeExcludes, dryrun |-> FALSE, debug |-> FALSE],
     [exclude_patterns |-> NoExcludes, dryrun |-> TRUE, debug |-> FALSE],
     [exclude_patterns |-> NoExcludes, dryrun |-> FALSE, debug |-> TRUE]}

TreeArgs ==
    {[mode |-> "push", if_exists |-> e, destination |-> src.destination,
      documents |-> src.documents, exclude_patterns |-> o.exclude_patterns,
      dryrun |-> o.dryrun, debug |-> o.debug] :
        e \in {"skip", "overwrite", "doconly", "duplicate"},
        src \in PushSources, o \in PushOptions}
    \cup
    {[mode |-> "pull", if_exists |-> e, destination |-> <<>>, documents |-> d,
      exclude_patterns |-> x, dryrun |-> FALSE, debug |-> FALSE] :
        e \in {"skip", "duplicate"}, d \in PullDocuments,
        x \in {NoExcludes, SomeExcludes}}

InitTree ==
    /\ args \in TreeArgs
    /\ Files(raw, TreeStems, MaxTreeRecords, TreeMetadata)
    /\ pos = 0
    /\ status = "loading"
    /\ metadata_by_uuid = EmptyDict
    /\ metadata_by_name = EmptyDict
    /\ metadata_by_parent = EmptyDict
    /\ metadata_by_name_and_parent = EmptyDict
    /\ pc = "load"
    /\ NoTree
    /\ ssh_calls = <<>>
    /\ NoClean

NextTree ==
    \/ RetrieveMetadata
    \/ PushConstruct
    \/ PushCurb
    \/ PushRender
    \/ PushTransfer
    \/ PushFinally
    \/ PullAnchors
    \/ PullBuild

SpecTree == InitTree /\ [][NextTree]_vars

---------------------------------------------------------------------------
(* The curb specification: the loops of push and pull that call curb_tree, *)
(* over every list of one or two trees of at most MaxNodes nodes each and  *)
(* the exclude lists below, with an empty index.                           *)

MaxNodes == 3

\* The trees of exactly n nodes below a parent of full path parent_path, and
\* the lists of trees of m nodes in all.
RECURSIVE Trees(_, _)
RECURSIVE Forests(_, _)

Trees(n, parent_path) ==
    UNION {{[name          |-> name,
             parent_path   |-> parent_path,
             id            |-> None,
             exists        |-> FALSE,
             gets_modified |-> FALSE,
             doctype       |-> "CollectionType",
             render        |-> "Folder.render",
             children      |-> f] :
                f \in Forests(n - 1, IF parent_path = <<>> THEN name
                                     ELSE parent_path \o <<"/">> \o name)} :
           name \in Names}

Forests(m, parent_path) ==
    IF m = 0 THEN {<<>>}
    ELSE UNION {{<<t>> \o f : t \in Trees(k, parent_path),
                              f \in Forests(m - k, parent_path)} : k \in 1..m}

RootTrees == UNION {Trees(n, <<>>) : n \in 1..MaxNodes}

Patterns ==
    [lit : {<<"a">>, <<"b">>, <<"a", "/", "b">>, <<"b", "/", "a", "/", "a">>},
     end : BOOLEAN]

CurbExcludes ==
    {<<>>} \cup {<<x>> : x \in Patterns}
    \cup {<<[lit |-> <<"a", "/", "b">>, end |-> TRUE], [lit |-> <<"b", "/", "a">>, end |-> FALSE]>>,
          <<[lit |-> <<"b">>, end |-> TRUE], [lit |-> <<"a", "/", "a">>, end |-> FALSE]>>}

CurbArgs(mode, excludelist) ==
    [mode |-> mode, if_exists |-> "skip", destination |-> <<>>, documents |-> <<>>,
     exclude_patterns |-> excludelist, dryrun |-> FALSE, debug |-> FALSE]

InitCurb ==
    /\ \E mode \in {"push", "pull"}, x \in CurbExcludes :
           /\ args = CurbArgs(mode, x)
           /\ pc = IF mode = "push" THEN "push_curb" ELSE "pull_build"
    /\ \E t \in RootTrees :
           \/ root = <<t>>
           \/ \E t2 \in RootTrees : root = <<t, t2>>
    /\ raw = <<>>
    /\ pos = 0
    /\ status = "loaded"
    /\ metadata_by_uuid = EmptyDict
    /\ metadata_by_name = EmptyDict
    /\ metadata_by_parent = EmptyDict
    /\ metadata_by_name_and_parent = EmptyDict
    /\ dids = 0
    /\ prepdir = {}
    /\ uploaded = {}
    /\ downloaded = <<>>
    /\ curbing = <<>>
    /\ ssh_calls = <<>>
    /\ NoClean

NextCurb ==
    \/ PushCurb
    \/ PullBuild

SpecCurb == InitCurb /\ [][NextCurb]_vars

---------------------------------------------------------------------------
(* The clean mode: cleanup_deleted, cleanup_orphaned, cleanup_duplicates   *)
(* and cleanup_emptydir, then the restart.  The device is xochitl (the     *)
(* stems with files in xochitl_dir) and orphans; ssh(arg, dry) is recorded *)
(* in ssh_calls with its dry flag and changes the device unless dry.       *)

Line(msg, arg) == [msg |-> msg, arg |-> arg]

Elements(s) == {s[i] : i \in 1..Len(s)}

\* ask: True under --yes, else whether the operator typed '', 'y' or 'Y'.
ask == IF args.yes THEN {TRUE} ELSE BOOLEAN

\* A pass returns: its value is appended to the values returned so far.
Return(name, value) == returned' = Append(returned, <<name, value>>)

Returned(name) == {returned[i][2] : i \in {j \in 1..Len(returned) : returned[j][1] = name}}

\* ssh("rm -r .../{u,..}*", dry) and ssh("rm -rv .../u*", dry).
rm(stems, dry) ==
    /\ ssh_calls' = Append(ssh_calls, [cmd |-> "rm -r", stems |-> stems, dry |-> dry])
    /\ xochitl' = IF dry THEN xochitl ELSE xochitl \ Elements(stems)

\* Lines 768-785.  The dict is walked in insertion order, the order of the
\* listing.
CleanupDeleted ==
    /\ Running("main")
    /\ args.mode = "clean"
    /\ LET deleted_uuids == SelectSeq(items(metadata_by_uuid, raw, 1),
                                      LAMBDA u : metadata_by_uuid[u].deleted)
       IN  IF Len(deleted_uuids) = 0
           THEN /\ printed' = Append(printed, Line("No deleted files found.", <<>>))
                /\ Return("cleanup_deleted", "False")
                /\ UNCHANGED <<ssh_calls, xochitl>>
           ELSE \E answer \in ask :
                    /\ IF answer
                       THEN /\ rm(deleted_uuids, args.dryrun)
                            /\ Return("cleanup_deleted", "True")
                       ELSE /\ Return("cleanup_deleted", "False")
                            /\ UNCHANGED <<ssh_calls, xochitl>>
                    /\ UNCHANGED printed
    /\ pc' = "cleanup_orphaned"
    /\ UNCHANGED <<args, raw, pos, status, index, tree, orphans, md5sums, locals>>

\* Lines 788-801.  files holds one line per orphan file, and "".split("\n")
\* is [""]: l is 1 for no orphan and for one.  The function has no return
\* statement: it returns None.
CleanupOrphaned ==
    /\ Running("cleanup_orphaned")
    /\ LET l == IF orphans = 0 THEN 1 ELSE orphans
       IN  IF l = 1
           THEN /\ printed' = Append(printed, Line("No orphan files found.", <<>>))
                /\ UNCHANGED <<ssh_calls, orphans>>
           ELSE IF args.dryrun
           THEN UNCHANGED <<printed, ssh_calls, orphans>>
           ELSE \E answer \in ask :
                    /\ IF answer
                       THEN /\ ssh_calls' = Append(ssh_calls,
                                                   [cmd |-> "rm orphans", dry |-> FALSE])
                            /\ orphans' = 0
                       ELSE UNCHANGED <<ssh_calls, orphans>>
                    /\ UNCHANGED printed
    /\ Return("cleanup_orphaned", None)
    /\ pc' = "cleanup_duplicates"
    /\ UNCHANGED <<args, raw, pos, status, index, tree, xochitl, md5sums, locals>>

---------------------------------------------------------------------------
(* cleanup_duplicates.  A line of the listing is [md5, filename], filename *)
(* the tokens <<stem, ".pdf">>; lastModified and the operator's input are  *)
(* strings of characters, which int() parses.                              *)

Digits == <<"0", "1", "2", "3", "4", "5", "6", "7", "8", "9">>

IsDigit(c) == \E i \in 1..Len(Digits) : Digits[i] = c

DigitValue(c) == (CHOOSE i \in 1..Len(Digits) : Digits[i] = c) - 1

RECURSIVE decimal(_, _)
decimal(s, n) ==
    IF n = 0 THEN 0 ELSE 10 * decimal(s, n - 1) + DigitValue(s[n])

\* int(s) for a string of characters: an optional sign, then digits only.
int(s) ==
    LET body == IF Len(s) > 0 /\ s[1] \in {"-", "+"} THEN Tail(s) ELSE s
    IN  IF Len(body) = 0 \/ \E i \in 1..Len(body) : ~IsDigit(body[i])
        THEN [err |-> "ValueError", value |-> 0]
        ELSE [err |-> "ok",
              value |-> IF s[1] = "-" THEN 0 - decimal(body, Len(body))
                        ELSE decimal(body, Len(body))]

\* os.path.basename(os.path.splitext(filename)[0])
stem_of(filename) == filename[1]

\* Lines 814-827: database[md5] is the list of the stems with that md5sum,
\* duplicates the md5sums met twice.
database_of(results) ==
    [md5 \in {results[i].md5 : i \in 1..Len(results)} |->
        LET lines == SelectSeq(results, LAMBDA line : line.md5 = md5)
        IN  [i \in 1..Len(lines) |-> stem_of(lines[i].filename)]]

duplicates_of(database) == {md5 \in DOMAIN database : Len(database[md5]) >= 2}

\* Lines 836-847: the candidates of one md5sum.  The message of line 845 is
\* formatted before the ValueError is raised again, so that an exception of
\* fullpath is the one that leaves.
RECURSIVE candidates(_, _, _)
candidates(us, i, by_uuid) ==
    IF i > Len(us) THEN [err |-> "ok", tmp |-> <<>>]
    ELSE IF us[i] \notin DOMAIN by_uuid THEN candidates(us, i + 1, by_uuid)
    ELSE LET metadata     == by_uuid[us[i]]
             lastmodified == int(metadata.lastModified)
             rest         == candidates(us, i + 1, by_uuid)
         IN  IF lastmodified.err # "ok"
             THEN LET fp == fullpath(metadata, by_uuid)
                  IN  [err |-> IF fp.err = "ok" THEN "ValueError" ELSE fp.err,
                       tmp |-> <<>>]
             ELSE IF rest.err # "ok" THEN rest
             ELSE [err |-> "ok",
                   tmp |-> <<[lastmodified |-> lastmodified.value, u |-> us[i],
                              metadata |-> metadata]>> \o rest.tmp]

\* The order of the tuples (lastmodified, u, metadata): lastmodified, then u.
tuple_less(x, y) ==
    \/ x.lastmodified < y.lastmodified
    \/ x.lastmodified = y.lastmodified /\ UuidRank(x.u) < UuidRank(y.u)

without(s, i) == [j \in 1..(Len(s) - 1) |-> IF j < i THEN s[j] ELSE s[j + 1]]

\* sorted(tmp), the oldest first.
RECURSIVE sorted_ascending(_)
sorted_ascending(tmp) ==
    IF Len(tmp) = 0 THEN <<>>
    ELSE LET i == CHOOSE k \in 1..Len(tmp) :
                      \A j \in 1..Len(tmp) : j # k => tuple_less(tmp[k], tmp[j])
         IN  <<tmp[i]>> \o sorted_ascending(without(tmp, i))

\* Line 849: sorted(tmp, reverse=True).
RECURSIVE sorted_reverse(_)
sorted_reverse(tmp) ==
    IF Len(tmp) = 0 THEN <<>>
    ELSE LET i == CHOOSE k \in 1..Len(tmp) :
                      \A j \in 1..Len(tmp) : j # k => tuple_less(tmp[j], tmp[k])
         IN  <<tmp[i]>> \o sorted_reverse(without(tmp, i))

\* Lines 851-857: one line per candidate, the first marked as the newest;
\* fullpath may raise in the middle.
RECURSIVE print_candidates(_, _, _)
print_candidates(tmp, i, by_uuid) ==
    IF i > Len(tmp) THEN [err |-> "ok", lines |-> <<>>]
    ELSE LET fp == fullpath(tmp[i].metadata, by_uuid)
             rest == print_candidates(tmp, i + 1, by_uuid)
         IN  IF fp.err # "ok" THEN [err |-> fp.err, lines |-> <<>>]
             ELSE [err |-> rest.err,
                   lines |-> <<Line(IF i = 1 THEN "(* newest)" ELSE "          ",
                                    <<tmp[i].u>>)>> \o rest.lines]

\* Lines 807-830: the listing is read and grouped.  A device without a
\* *.md5sum gives the one line "", which does not unpack.
CleanupDuplicates ==
    /\ Running("cleanup_duplicates")
    /\ IF Len(md5sums) = 0
       THEN /\ status' = "ValueError"
            /\ UNCHANGED <<pc, locals>>
       ELSE /\ locals' = [database |-> database_of(md5sums),
                          duplicates |-> duplicates_of(database_of(md5sums)),
                          tmp |-> <<>>, deleted_uuids |-> <<>>]
            /\ pc' = "duplicates_for"
            /\ UNCHANGED status
    /\ UNCHANGED <<args, raw, pos, index, tree, ssh_calls, xochitl, orphans,
                   md5sums, printed, returned>>

\* Lines 831-861: the next md5sum of the set (a set has no order to rely
\* on), its candidates sorted and printed.  KeyError goes on with the next
\* md5sum; any other exception leaves the program.
DuplicatesFor(md5) ==
    /\ Running("duplicates_for")
    /\ md5 \in locals.duplicates
    /\ LET found  == candidates(locals.database[md5], 1, metadata_by_uuid)
           tmp    == sorted_reverse(found.tmp)
           lines  == print_candidates(tmp, 1, metadata_by_uuid)
           err    == IF found.err # "ok" THEN found.err ELSE lines.err
           header == <<Line("found duplicates for md5sum", <<md5>>)>>
           left   == Put([locals EXCEPT !.duplicates = @ \ {md5}], "md5", md5)
       IN  IF err = "ok"
           THEN /\ printed' = printed \o header \o lines.lines
                /\ locals' = [left EXCEPT !.tmp = tmp]
                /\ pc' = "duplicates_input"
                /\ UNCHANGED status
           ELSE IF err = "KeyError"
           THEN /\ printed' = printed \o header
                                \o (IF found.err = "ok" THEN lines.lines ELSE <<>>)
                                \o <<Line("this should not happen...", <<>>)>>
                /\ locals' = left
                /\ UNCHANGED <<pc, status>>
           ELSE /\ status' = err
                /\ UNCHANGED <<pc, locals, printed>>
    /\ UNCHANGED <<args, raw, pos, index, tree, ssh_calls, xochitl, orphans,
                   md5sums, returned>>

\* Lines 908-909: the loop has ended, by exhaustion or by "N".
DuplicatesReturn ==
    /\ Running("duplicates_for")
    /\ locals.duplicates = {}
    /\ printed' = Append(printed, Line("Removed duplicates in total.",
                                       locals.deleted_uuids))
    /\ Return("cleanup_duplicates",
              IF Len(locals.deleted_uuids) > 0 THEN "True" ELSE "False")
    /\ pc' = "cleanup_emptydir"
    /\ UNCHANGED <<args, raw, pos, status, index, tree, ssh_calls, xochitl, orphans,
                   md5sums, locals>>

\* Lines 899-904: remove_uuid and rm for every candidate but keep, in the
\* order of tmp.
RECURSIVE remove_all(_, _, _, _)
remove_all(us, i, by_uuid, by_parent) ==
    IF i > Len(us) THEN [by_uuid |-> by_uuid, by_parent |-> by_parent]
    ELSE LET r == remove_uuid(us[i], by_uuid, by_parent)
         IN  remove_all(us, i + 1, r.by_uuid, r.by_parent)

rm_each(us, dry) ==
    /\ ssh_calls' = ssh_calls \o [i \in 1..Len(us) |->
                                     [cmd |-> "rm -rv", stems |-> <<us[i]>>, dry |-> dry]]
    /\ xochitl' = IF dry THEN xochitl ELSE xochitl \ Elements(us)

\* "N" answered as "n": the loop goes on with the next md5sum.
break_as_continue(l) == l

\* Lines 893-895: break leaves the loop over duplicates, whatever is left.
break(l) == [l EXCEPT !.duplicates = {}]

\* Lines 863-905: one answer of the operator to the prompt, or none when
\* there is one candidate.  An answer that does not parse or is out of range
\* is answered by a message (not kept in printed) and the prompt again.
DuplicatesInput(s) ==
    /\ Running("duplicates_input")
    /\ LET tmp    == locals.tmp
           parsed == int(s)
           i      == IF Len(tmp) = 1 \/ s = <<>> THEN 0
                     ELSE IF s = <<"n">> THEN 0 - 1
                     ELSE IF s = <<"N">> THEN 0 - 2
                     ELSE parsed.value
           read   == IF Len(tmp) = 1 THEN locals ELSE Put(locals, "s", s)
           again  == /\ Len(tmp) # 1
                     /\ s \notin {<<>>, <<"n">>, <<"N">>}
                     /\ parsed.err # "ok" \/ ~(0 <= i /\ i < Len(tmp))
       IN  IF again
           THEN /\ locals' = read
                /\ UNCHANGED <<pc, status, printed, metadata_by_uuid,
                               metadata_by_parent, ssh_calls, xochitl>>
           ELSE IF i = 0 - 1
           THEN /\ printed' = Append(printed, Line("skipping this file.", <<>>))
                /\ locals' = read
                /\ pc' = "duplicates_for"
                /\ UNCHANGED <<status, metadata_by_uuid, metadata_by_parent,
                               ssh_calls, xochitl>>
           ELSE IF i = 0 - 2
           THEN /\ printed' = Append(printed, Line("cleanup stopped.", <<>>))
                /\ locals' = break(read)
                /\ pc' = "duplicates_for"
                /\ UNCHANGED <<status, metadata_by_uuid, metadata_by_parent,
                               ssh_calls, xochitl>>
           ELSE IF Len(tmp) = 0
           THEN /\ status' = "IndexError"
                /\ locals' = read
                /\ UNCHANGED <<pc, printed, metadata_by_uuid, metadata_by_parent,
                               ssh_calls, xochitl>>
           ELSE LET keep == tmp[i + 1].u
                    us   == SelectSeq([j \in 1..Len(tmp) |-> tmp[j].u],
                                      LAMBDA u : u # keep)
                    r    == remove_all(us, 1, metadata_by_uuid, metadata_by_parent)
                IN  /\ metadata_by_uuid' = r.by_uuid
                    /\ metadata_by_parent' = r.by_parent
                    /\ rm_each(us, args.dryrun)
                    /\ locals' = [read EXCEPT !.deleted_uuids = @ \o us]
                    /\ printed' = Append(printed, Line("Removed duplicates.", us))
                    /\ pc' = "duplicates_for"
                    /\ UNCHANGED status
    /\ UNCHANGED <<args, raw, pos, metadata_by_name, metadata_by_name_and_parent,
                   tree, orphans, md5sums, returned>>

---------------------------------------------------------------------------
(* cleanup_emptydir and the end of the clean mode.                         *)

\* The scan removing each empty collection as soon as it meets it.
RECURSIVE scan_removing_in_loop(_, _, _, _)
scan_removing_in_loop(us, i, by_uuid, by_parent) ==
    IF i > Len(us) THEN [err |-> "ok", uuids |-> <<>>, lines |-> <<>>]
    ELSE LET u        == us[i]
             metadata == by_uuid[u]
         IN  IF metadata.type # "CollectionType" \/ u \in DOMAIN by_parent
             THEN scan_removing_in_loop(us, i + 1, by_uuid, by_parent)
             ELSE LET fp   == fullpath(metadata, by_uuid)
                      r    == remove_uuid(u, by_uuid, by_parent)
                      rest == scan_removing_in_loop(us, i + 1, r.by_uuid, r.by_parent)
                  IN  IF fp.err # "ok"
                      THEN [err |-> fp.err, uuids |-> <<>>, lines |-> <<>>]
                      ELSE [err   |-> rest.err,
                            uuids |-> <<u>> \o rest.uuids,
                            lines |-> <<Line("empty:", fp.path)>> \o rest.lines]

\* The scan taking every record without children, whatever its type.
RECURSIVE scan_any_type(_, _, _, _)
scan_any_type(us, i, by_uuid, by_parent) ==
    IF i > Len(us) THEN [err |-> "ok", uuids |-> <<>>, lines |-> <<>>]
    ELSE LET u        == us[i]
             metadata == by_uuid[u]
             rest     == scan_any_type(us, i + 1, by_uuid, by_parent)
         IN  IF u \in DOMAIN by_parent THEN rest
             ELSE LET fp == fullpath(metadata, by_uuid)
                  IN  IF fp.err # "ok"
                      THEN [err |-> fp.err, uuids |-> <<>>, lines |-> <<>>]
                      ELSE [err   |-> rest.err,
                            uuids |-> <<u>> \o rest.uuids,
                            lines |-> <<Line("empty:", fp.path)>> \o rest.lines]

\* Lines 923-929: one scan of the dict, in insertion order; fullpath may
\* raise in the middle, and nothing catches it.
RECURSIVE scan(_, _, _, _)
scan(us, i, by_uuid, by_parent) ==
    IF i > Len(us) THEN [err |-> "ok", uuids |-> <<>>, lines |-> <<>>]
    ELSE LET u        == us[i]
             metadata == by_uuid[u]
             rest     == scan(us, i + 1, by_uuid, by_parent)
         IN  IF metadata.type # "CollectionType" \/ u \in DOMAIN by_parent THEN rest
             ELSE LET fp == fullpath(metadata, by_uuid)
                  IN  IF fp.err # "ok"
                      THEN [err |-> fp.err, uuids |-> <<>>, lines |-> <<>>]
                      ELSE [err   |-> rest.err,
                            uuids |-> <<u>> \o rest.uuids,
                            lines |-> <<Line("empty:", fp.path)>> \o rest.lines]

\* Lines 915-917.
CleanupEmptydir ==
    /\ Running("cleanup_emptydir")
    /\ locals' = [deleted_uuids |-> <<>>, empty_found |-> TRUE, iteration |-> 1]
    /\ pc' = "emptydir_while"
    /\ UNCHANGED <<args, raw, pos, status, index, tree, ssh_calls, xochitl, orphans,
                   md5sums, printed, returned>>

\* Lines 918-933: one iteration of the while loop, the scan and then the
\* removals.
EmptydirScan ==
    /\ Running("emptydir_while")
    /\ locals.empty_found
    /\ LET found == scan(items(metadata_by_uuid, raw, 1), 1, metadata_by_uuid,
                         metadata_by_parent)
           r     == remove_all(found.uuids, 1, metadata_by_uuid, metadata_by_parent)
       IN  /\ printed' = printed \o <<Line("iteration", <<locals.iteration>>)>>
                                 \o found.lines
           /\ IF found.err # "ok"
              THEN /\ status' = found.err
                   /\ UNCHANGED <<metadata_by_uuid, metadata_by_parent, locals>>
              ELSE /\ metadata_by_uuid' = r.by_uuid
                   /\ metadata_by_parent' = r.by_parent
                   /\ locals' = [deleted_uuids |-> locals.deleted_uuids \o found.uuids,
                                 empty_found   |-> Len(found.uuids) > 0,
                                 iteration     |-> locals.iteration + 1]
                   /\ UNCHANGED status
    /\ UNCHANGED <<args, raw, pos, metadata_by_name, metadata_by_name_and_parent, pc,
                   tree, ssh_calls, xochitl, orphans, md5sums, returned>>

\* The end of the pass with the storage removal issued before the question.
EmptydirReturnRemovingFirst ==
    /\ Running("emptydir_while")
    /\ ~locals.empty_found
    /\ IF Len(locals.deleted_uuids) = 0
       THEN /\ printed' = Append(printed, Line("No empty directories found.", <<>>))
            /\ Return("cleanup_emptydir", "False")
            /\ UNCHANGED <<ssh_calls, xochitl>>
       ELSE \E answer \in ask :
                /\ rm(locals.deleted_uuids, args.dryrun)
                /\ Return("cleanup_emptydir", IF answer THEN "True" ELSE "False")
                /\ UNCHANGED printed
    /\ pc' = "restart"
    /\ UNCHANGED <<args, raw, pos, status, index, tree, orphans, md5sums, locals>>

\* Lines 935-943.
EmptydirReturn ==
    /\ Running("emptydir_while")
    /\ ~locals.empty_found
    /\ IF Len(locals.deleted_uuids) = 0
       THEN /\ printed' = Append(printed, Line("No empty directories found.", <<>>))
            /\ Return("cleanup_emptydir", "False")
            /\ UNCHANGED <<ssh_calls, xochitl>>
       ELSE \E answer \in ask :
                /\ IF answer
                   THEN /\ rm(locals.deleted_uuids, args.dryrun)
                        /\ Return("cleanup_emptydir", "True")
                   ELSE /\ Return("cleanup_emptydir", "False")
                        /\ UNCHANGED <<ssh_calls, xochitl>>
                /\ UNCHANGED printed
    /\ pc' = "restart"
    /\ UNCHANGED <<args, raw, pos, status, index, tree, orphans, md5sums, locals>>

\* Lines 971-972, r1, r2 and r3 being what the three passes returned.
Restart ==
    /\ Running("restart")
    /\ args.mode = "clean"
    /\ ssh_calls' = IF /\ ~args.dryrun
                       /\ \/ "True" \in Returned("cleanup_deleted")
                          \/ "True" \in Returned("cleanup_duplicates")
                          \/ "True" \in Returned("cleanup_emptydir")
                    THEN Append(ssh_calls, [cmd |-> "restart"])
                    ELSE ssh_calls
    /\ pc' = "done"
    /\ UNCHANGED <<args, raw, pos, status, index, tree, xochitl, orphans, md5sums,
                   printed, returned, locals>>

---------------------------------------------------------------------------
(* The clean specification: a run of the clean mode over every device of   *)
(* at most MaxCleanRecords records of the kinds below.                     *)

MaxCleanRecords == 3

CleanNames == <<<<"a">>, <<"b">>, <<"c">>, <<"d">>, <<"e">>>>

Stamps == {<<"1", "0", "0">>, <<"2", "0", "0">>, <<"3", "0", "0">>}

\* The i-th record: a document at the root with any of the stamps, a deleted
\* document, a collection at the root, or a document or collection inside the
\* record listed before it.
CleanMetadata(i) ==
    LET record(type, parent, deleted, stamp) ==
            [visibleName |-> CleanNames[i], parent |-> parent, type |-> type,
             deleted |-> deleted, lastModified |-> stamp]
        old == <<"1", "0", "0">>
    IN  {record("DocumentType", "", FALSE, stamp) : stamp \in Stamps}
        \cup {record("DocumentType", "", TRUE, old),
              record("CollectionType", "", FALSE, old)}
        \cup (IF i = 1 THEN {}
              ELSE {record(type, UUIDS[i - 1], FALSE, old) :
                        type \in {"DocumentType", "CollectionType"}})

\* cat *.md5sum: one line per document of the device, deleted or not, in the
\* order of the glob, the first ones with the md5sum m1 and the others with m2.
Md5sumsOf(files, lines) ==
    LET docs == SelectSeq(files, LAMBDA f : f.metadata.type = "DocumentType")
    IN  \E m1 \in 1..Len(docs) \cup {0} :
            /\ Len(docs) > 0 => m1 > 0
            /\ lines = [i \in 1..Len(docs) |->
                           [md5 |-> IF i <= m1 THEN "m1" ELSE "m2",
                            filename |-> <<docs[i].path, ".pdf">>]]

\* --dryrun, --yes and the number of files without metadata.
CleanRuns ==
    {<<FALSE, FALSE, 2>>, <<FALSE, TRUE, 1>>, <<TRUE, FALSE, 2>>, <<TRUE, TRUE, 0>>}

\* What the operator may type at the prompt of cleanup_duplicates.
Inputs ==
    {<<>>, <<"n">>, <<"N">>, <<"x">>, <<"-", "1">>}
        \cup {<<Digits[i]>> : i \in 1..(MaxCleanRecords + 1)}

InitClean ==
    /\ \E k \in 0..MaxCleanRecords :
           \E f \in [1..k -> UNION {CleanMetadata(i) : i \in 1..MaxCleanRecords}] :
               /\ \A i \in 1..k : f[i] \in CleanMetadata(i)
               /\ raw = [i \in 1..k |-> [path |-> UUIDS[i], metadata |-> f[i]]]
    /\ Md5sumsOf(raw, md5sums)
    /\ xochitl = {raw[i].path : i \in 1..Len(raw)}
    /\ \E run \in CleanRuns :
           /\ args = [mode |-> "clean", dryrun |-> run[1], yes |-> run[2]]
           /\ orphans = run[3]
    /\ pos = 0
    /\ status = "loading"
    /\ metadata_by_uuid = EmptyDict
    /\ metadata_by_name = EmptyDict
    /\ metadata_by_parent = EmptyDict
    /\ metadata_by_name_and_parent = EmptyDict
    /\ pc = "load"
    /\ NoTree
    /\ ssh_calls = <<>>
    /\ printed = <<>>
    /\ returned = <<>>
    /\ locals = EmptyDict

NextClean ==
    \/ RetrieveMetadata
    \/ CleanupDeleted
    \/ CleanupOrphaned
    \/ CleanupDuplicates
    \/ \E md5 \in {"m1", "m2"} : DuplicatesFor(md5)
    \/ \E s \in Inputs : DuplicatesInput(s)
    \/ DuplicatesReturn
    \/ CleanupEmptydir
    \/ EmptydirScan
    \/ EmptydirReturn
    \/ Restart

SpecClean == InitClean /\ [][NextClean]_vars

---------------------------------------------------------------------------
(* The empty-collection specification: cleanup_emptydir called on every    *)
(* loaded index of at most MaxChain records, collections and documents,    *)
(* each at the root or inside any other stem, and called again on the      *)
(* index it leaves, MaxRuns times in all.                                  *)

MaxChain == 3

MaxRuns == 2

ChainMetadata(i) ==
    {[visibleName |-> CleanNames[i], parent |-> parent, type |-> type,
      deleted |-> FALSE, lastModified |-> <<"1", "0", "0">>] :
         parent \in {""} \cup (Uuids(MaxChain) \ {UUIDS[i]}),
         type \in {"CollectionType", "DocumentType"}}

InitEmptydir ==
    /\ \E k \in 0..MaxChain :
           \E f \in [1..k -> UNION {ChainMetadata(i) : i \in 1..MaxChain}] :
               /\ \A i \in 1..k : f[i] \in ChainMetadata(i)
               /\ raw = [i \in 1..k |-> [path |-> UUIDS[i], metadata |-> f[i]]]
    /\ LET ix == retrieve_metadata(raw)
       IN  /\ metadata_by_uuid = ix.by_uuid
           /\ metadata_by_name = ix.by_name
           /\ metadata_by_parent = ix.by_parent
           /\ metadata_by_name_and_parent = ix.by_name_and_parent
           /\ status = ix.status
    /\ pos = Len(raw)
    /\ xochitl = {raw[i].path : i \in 1..Len(raw)}
    /\ \E run \in {<<FALSE, FALSE>>, <<FALSE, TRUE>>, <<TRUE, TRUE>>} :
           args = [mode |-> "clean", dryrun |-> run[1], yes |-> run[2]]
    /\ pc = "cleanup_emptydir"
    /\ NoTree
    /\ ssh_calls = <<>>
    /\ orphans = 0
    /\ md5sums = <<>>
    /\ printed = <<>>
    /\ returned = <<>>
    /\ locals = EmptyDict

\* cleanup_emptydir is called once more.
EmptydirAgain ==
    /\ Running("restart")
    /\ Len(returned) < MaxRuns
    /\ pc' = "cleanup_emptydir"
    /\ UNCHANGED <<args, raw, pos, status, index, tree, ssh_calls, clean>>

NextEmptydir ==
    \/ CleanupEmptydir
    \/ EmptydirScan
    \/ EmptydirReturn
    \/ EmptydirAgain

SpecEmptydir == InitEmptydir /\ [][NextEmptydir]_vars

---------------------------------------------------------------------------
(* The duplicates specification: cleanup_duplicates called on every loaded *)
(* index of at most MaxDupRecords documents, enough for two md5sums with   *)
(* two candidates each.                                                    *)

MaxDupRecords == 4

\* The i-th record: a document at the root, old or new, a deleted document,
\* or a document whose parent is the record listed before it (a parent that
\* is missing from by-id when that record is deleted).
DupMetadata(i) ==
    LET record(parent, deleted, stamp) ==
            [visibleName |-> CleanNames[i], parent |-> parent,
             type |-> "DocumentType", deleted |-> deleted, lastModified |-> stamp]
    IN  {record("", FALSE, <<"1", "0", "0">>), record("", FALSE, <<"3", "0", "0">>),
         record("", TRUE, <<"1", "0", "0">>)}
        \cup (IF i = 1 THEN {} ELSE {record(UUIDS[i - 1], FALSE, <<"1", "0", "0">>)})

InitDup ==
    /\ \E k \in 0..MaxDupRecords :
           \E f \in [1..k -> UNION {DupMetadata(i) : i \in 1..MaxDupRecords}] :
               /\ \A i \in 1..k : f[i] \in DupMetadata(i)
               /\ raw = [i \in 1..k |-> [path |-> UUIDS[i], metadata |-> f[i]]]
    /\ LET ix == retrieve_metadata(raw)
       IN  /\ metadata_by_uuid = ix.by_uuid
           /\ metadata_by_name = ix.by_name
           /\ metadata_by_parent = ix.by_parent
           /\ metadata_by_name_and_parent = ix.by_name_and_parent
           /\ status = ix.status
    /\ pos = Len(raw)
    /\ Md5sumsOf(raw, md5sums)
    /\ xochitl = {raw[i].path : i \in 1..Len(raw)}
    /\ \E dryrun \in BOOLEAN : args = [mode |-> "clean", dryrun |-> dryrun, yes |-> FALSE]
    /\ pc = "cleanup_duplicates"
    /\ NoTree
    /\ ssh_calls = <<>>
    /\ orphans = 0
    /\ printed = <<>>
    /\ returned = <<>>
    /\ locals = EmptyDict

NextDup ==
    \/ CleanupDuplicates
    \/ \E md5 \in {"m1", "m2"} : DuplicatesFor(md5)
    \/ \E s \in Inputs : DuplicatesInput(s)
    \/ DuplicatesReturn

SpecDup == InitDup /\ [][NextDup]_vars

---------------------------------------------------------------------------
(* Claims about the index (specification Spec).                            *)

Live(i) == ~SoftDeleted(raw[i].metadata)

SameKey(i, j) ==
    /\ raw[i].metadata.visibleName = raw[j].metadata.visibleName
    /\ raw[i].metadata.parent = raw[j].metadata.parent

\* Record j is the second of two live records with one (visibleName, parent).
Colliding(j) == Live(j) /\ \E i \in 1..(j - 1) : Live(i) /\ SameKey(i, j)

\* C1: whatever the order of the records, once the load has consumed the
\* second of two live records that share (visibleName, parent) it has failed
\* there, and the failure is FileCollision.
C1_CollisionAlwaysFileCollision ==
    \A j \in 1..pos : Colliding(j) => status = "FileCollision" /\ pos = j

\* C8 (as stated): remove_uuid(u) on any id of by-id, root records included,
\* deletes the by-id entry, takes u out of its parent's by-parent set, drops
\* that set when it became empty, and leaves everything else as it was.
RemovedFromParent(u, p) ==
    /\ p \in DOMAIN metadata_by_parent
    /\ IF DOMAIN metadata_by_parent[p] = {u}
       THEN p \notin DOMAIN metadata_by_parent'
       ELSE /\ p \in DOMAIN metadata_by_parent'
            /\ metadata_by_parent'[p] = Del(metadata_by_parent[p], u)
    /\ \A q \in (DOMAIN metadata_by_parent) \ {p} :
           /\ q \in DOMAIN metadata_by_parent'
           /\ metadata_by_parent'[q] = metadata_by_parent[q]
    /\ DOMAIN metadata_by_parent' \subseteq DOMAIN metadata_by_parent

RemoveFrame(u) ==
    /\ metadata_by_uuid' = Del(metadata_by_uuid, u)
    /\ metadata_by_name' = metadata_by_name
    /\ metadata_by_name_and_parent' = metadata_by_name_and_parent

\* The step is a remove_uuid(u) call.
IsRemove(u) ==
    /\ pc = "main"
    /\ u \in DOMAIN metadata_by_uuid
    /\ u \notin DOMAIN metadata_by_uuid'

C8_RemoveEveryId ==
    [][\A u \in Uuids(MaxRecords) :
           IsRemove(u) =>
               /\ RemoveFrame(u)
               /\ RemovedFromParent(u, metadata_by_uuid[u].parent)]_vars

\* C8 (amended): the by-parent part holds for ids whose parent key is not
\* empty; for a record directly under the root only the by-id entry goes and
\* by-parent, whose "" entry still lists the id, is left as it was.
C8_RemoveUuid ==
    [][\A u \in Uuids(MaxRecords) :
           IsRemove(u) =>
               /\ RemoveFrame(u)
               /\ IF metadata_by_uuid[u].parent # ""
                  THEN RemovedFromParent(u, metadata_by_uuid[u].parent)
                  ELSE /\ metadata_by_parent' = metadata_by_parent
                       /\ u \in DOMAIN metadata_by_parent[""]]_vars

\* A record under a parent has been removed and took the parent's by-parent
\* entry with it, and a record under the root has been removed and is still
\* listed under "".
C8_Witness ==
    /\ pc = "main"
    /\ \E i \in 1..Len(raw) :
           /\ Live(i)
           /\ raw[i].metadata.parent # ""
           /\ raw[i].path \notin DOMAIN metadata_by_uuid
           /\ raw[i].metadata.parent \notin DOMAIN metadata_by_parent
    /\ \E i \in 1..Len(raw) :
           /\ Live(i)
           /\ raw[i].metadata.parent = ""
           /\ raw[i].path \notin DOMAIN metadata_by_uuid
           /\ raw[i].path \in DOMAIN metadata_by_parent[""]

---------------------------------------------------------------------------
(* Claims about the tree (specification SpecTree).                         *)

\* The nodes of a tree, each with the parent key its lookup used: the id of
\* its parent, "" at the top.
RECURSIVE nodes_of(_, _)
RECURSIVE nodes_of_list(_, _, _)

nodes_of_list(children, i, key) ==
    IF i > Len(children) THEN <<>>
    ELSE nodes_of(children[i], key) \o nodes_of_list(children, i + 1, key)

nodes_of(node, key) ==
    <<[node |-> node, key |-> key]>> \o nodes_of_list(node.children, 1, node.id)

Range(seq) == {seq[i] : i \in 1..Len(seq)}

TreeNodes == Range(nodes_of_list(root, 1, "")) \cup Range(nodes_of_list(downloaded, 1, ""))

SoftDeletedIds ==
    {raw[i].path : i \in {j \in 1..Len(raw) : SoftDeleted(raw[j].metadata)}}

IndexEntries ==
    DOMAIN metadata_by_uuid
    \cup UNION {DOMAIN metadata_by_name[n] : n \in DOMAIN metadata_by_name}
    \cup UNION {DOMAIN metadata_by_parent[q] : q \in DOMAIN metadata_by_parent}
    \cup {metadata_by_name_and_parent[k][1] : k \in DOMAIN metadata_by_name_and_parent}

\* C2: a record with deleted = true or parent = "trash" is an entry of none
\* of the four indices, and no node of a tree built by a push or by a pull
\* carries its id.
C2_SoftDeleteInvisible ==
    /\ SoftDeletedIds \cap IndexEntries = {}
    /\ \A n \in TreeNodes : n.node.id \notin SoftDeletedIds

\* A pull has built the anchor of the folder "type", under which the device
\* holds a soft-deleted record.
C2_Witness ==
    /\ pc = "done"
    /\ args.mode = "pull"
    /\ \E k \in 1..Len(downloaded) :
           /\ downloaded[k].id = "type"
           /\ \E i \in 1..Len(raw) :
                  /\ SoftDeleted(raw[i].metadata)
                  /\ raw[i].metadata.parent \in {"type", "trash"}

\* The documents of the tree whose (name, parent id) is a record of the
\* index.
Resolves(n) == <<n.node.name, n.key>> \in DOMAIN metadata_by_name_and_parent

Resolved(n) == metadata_by_name_and_parent[<<n.node.name, n.key>>][1]

CollidingDocuments ==
    {n \in Range(nodes_of_list(root, 1, "")) :
         n.node.doctype = "DocumentType" /\ Resolves(n)}

Triple(node) == <<node.id, node.gets_modified, node.exists>>

\* C4 (as stated): after construction the triple (identity,
\* pendingModification, existsRemotely) of a colliding document is fixed by
\* the policy: skip keeps the id; overwrite and doconly discard it; duplicate
\* replaces it by a generated one.
C4_PolicyDiscardsIdentity ==
    (pc = "push_curb") =>
        \A n \in CollidingDocuments :
            /\ args.if_exists = "skip" => Triple(n.node) = <<Resolved(n), FALSE, TRUE>>
            /\ args.if_exists \in {"overwrite", "doconly"} =>
                   Triple(n.node) = <<None, TRUE, FALSE>>
            /\ args.if_exists = "duplicate" =>
                   /\ n.node.id \in Range(GENS)
                   /\ n.node.id \notin IndexEntries
                   /\ ~n.node.exists

\* C4 (amended): overwrite and doconly keep the resolved id on the node and
\* set existsRemotely = false, pendingModification = true.
C4_PolicyTriple ==
    (pc = "push_curb") =>
        \A n \in CollidingDocuments :
            /\ args.if_exists = "skip" => Triple(n.node) = <<Resolved(n), FALSE, TRUE>>
            /\ args.if_exists \in {"overwrite", "doconly"} =>
                   Triple(n.node) = <<Resolved(n), TRUE, FALSE>>
            /\ args.if_exists = "duplicate" =>
                   /\ n.node.id \in Range(GENS)
                   /\ n.node.id \notin IndexEntries
                   /\ Triple(n.node) = <<n.node.id, FALSE, FALSE>>

\* A push under overwrite has constructed a document that collides.
C4_Witness ==
    /\ pc = "push_curb"
    /\ args.if_exists = "overwrite"
    /\ CollidingDocuments # {}

FilesOf(id) == {f \in prepdir : f[1] = id}

FullSet(id, node) ==
    {<<id, ".metadata">>, <<id, ".content">>, <<id, "">>, <<id, ".thumbnails">>,
     <<id, suffix(node.name)>>}

\* The render of the push has run (its files are still in prepdir).
Rendered == pc = "push_finally" /\ args.mode = "push" /\ ~args.dryrun

\* C5, without doconly: what render wrote for a colliding document.
C5_RenderOtherPolicies ==
    Rendered =>
        \A n \in CollidingDocuments :
            /\ args.if_exists = "skip" => FilesOf(Resolved(n)) = {}
            /\ args.if_exists = "overwrite" =>
                   FilesOf(Resolved(n)) = FullSet(Resolved(n), n.node)
            /\ args.if_exists = "duplicate" =>
                   /\ n.node.id # Resolved(n)
                   /\ FilesOf(n.node.id) = FullSet(n.node.id, n.node)
                   /\ FilesOf(Resolved(n)) = {}

\* C5: under skip render writes nothing for a colliding document; under
\* overwrite the full set under the existing id; under doconly render
\* completes and writes the payload alone; under duplicate the full set under
\* the new id and nothing under the existing one.
C5_RenderByPolicy ==
    /\ C5_RenderOtherPolicies
    /\ Rendered =>
           \A n \in CollidingDocuments :
               args.if_exists = "doconly" =>
                   /\ status = "loaded"
                   /\ FilesOf(Resolved(n)) = {<<Resolved(n), suffix(n.node.name)>>}

---------------------------------------------------------------------------
(* Claims about curb_tree (specification SpecCurb).                        *)

\* The positions of a tree in pre-order: a position is the list of child
\* indices that leads from the root to a node.
RECURSIVE positions(_)
RECURSIVE positions_below(_, _)

positions_below(node, i) ==
    IF i > Len(node.children) THEN <<>>
    ELSE LET sub == positions(node.children[i])
         IN  [k \in 1..Len(sub) |-> <<i>> \o sub[k]] \o positions_below(node, i + 1)

positions(node) == <<<<>>>> \o positions_below(node, 1)

RECURSIVE NodeAt(_, _)
NodeAt(node, p) == IF p = <<>> THEN node ELSE NodeAt(node.children[p[1]], Tail(p))

\* A node without its subtree.
Entry(node) == [node EXCEPT !.children = <<>>]

\* The node at p, or one of its ancestors in t, has a full path that a
\* pattern matches.
CutAt(t, p, excludelist) ==
    \E k \in 0..Len(p) :
        curbs(excludelist, get_full_path(NodeAt(t, SubSeq(p, 1, k))))

\* The nodes of t outside every matched subtree, in pre-order.
KeptListing(t, excludelist) ==
    LET Kept(p) == ~CutAt(t, p, excludelist)
        ps      == SelectSeq(positions(t), Kept)
    IN  [k \in 1..Len(ps) |-> Entry(NodeAt(t, ps[k]))]

Listing(t) ==
    LET ps == positions(t) IN [k \in 1..Len(ps) |-> Entry(NodeAt(t, ps[k]))]

RECURSIVE Concat(_, _)
Concat(seqs, i) == IF i > Len(seqs) THEN <<>> ELSE seqs[i] \o Concat(seqs, i + 1)

KeptListings(roots, excludelist) ==
    Concat([i \in 1..Len(roots) |-> KeptListing(roots[i], excludelist)], 1)

Listings(roots) == Concat([i \in 1..Len(roots) |-> Listing(roots[i])], 1)

RootCurbed(t) == curbs(args.exclude_patterns, get_full_path(t))

\* The paths of the topmost matched nodes of t, in pre-order.
CurbedPaths(t, excludelist) ==
    LET Top(p) == /\ curbs(excludelist, get_full_path(NodeAt(t, p)))
                  /\ \A k \in 0..(Len(p) - 1) :
                         ~curbs(excludelist, get_full_path(NodeAt(t, SubSeq(p, 1, k))))
        ps     == SelectSeq(positions(t), Top)
    IN  [k \in 1..Len(ps) |-> get_full_path(NodeAt(t, ps[k]))]

AllCurbedPaths(roots, excludelist) ==
    Concat([i \in 1..Len(roots) |-> CurbedPaths(roots[i], excludelist)], 1)

\* C3: the trees push keeps, and the trees pull downloads, hold exactly the
\* nodes outside every matched subtree, unchanged and in their order: no
\* matched node and no descendant of one, and nothing of a root that matched;
\* a root that matched is itself left as it was.
C3_CurbPrunesMatchedSubtrees ==
    [][/\ (pc = "push_curb" /\ pc' # pc) =>
              /\ Listings(root') = KeptListings(root, args.exclude_patterns)
              /\ Len(root') = Cardinality({i \in 1..Len(root) : ~RootCurbed(root[i])})
              /\ curbing' = AllCurbedPaths(root, args.exclude_patterns)
       /\ (pc = "pull_build" /\ pc' # pc) =>
              /\ Listings(downloaded') = KeptListings(root, args.exclude_patterns)
              /\ Len(downloaded') =
                     Cardinality({i \in 1..Len(root) : ~RootCurbed(root[i])})
              /\ \A i \in 1..Len(root) : RootCurbed(root[i]) => root'[i] = root[i]
              /\ curbing' = AllCurbedPaths(root, args.exclude_patterns)]_vars

NodeCount(t) == Len(positions(t))

\* A pull has curbed two anchors: the first matched at its root, was left
\* with its children and was not downloaded; the second lost the subtree at
\* a/a and was downloaded with what is left.
C3_Witness ==
    /\ args.mode = "pull"
    /\ pc = "done"
    /\ curbing = << <<"b">>, <<"a", "/", "a">> >>
    /\ Len(root) = 2
    /\ NodeCount(root[1]) = 3
    /\ downloaded = <<root[2]>>
    /\ NodeCount(root[2]) = 2

---------------------------------------------------------------------------
(* Claims about the clean mode (specification SpecClean).                  *)

StemsWith(P(_)) == {raw[i].path : i \in {j \in 1..Len(raw) : P(raw[j].metadata)}}

DeletedStems == StemsWith(LAMBDA metadata : metadata.deleted)

LoadedStems == StemsWith(LAMBDA metadata : ~SoftDeleted(metadata))

Calls(cmd) == {i \in 1..Len(ssh_calls) : ssh_calls[i].cmd = cmd}

\* C10: once cleanup_deleted has returned after the load, it has issued no
\* removal and returned False if no record of the device is deleted, and, if
\* some are and the operator confirms (here by --yes), it has issued exactly
\* one batch removal naming all of them and returned True.
C10_TrashPurge ==
    (status = "loaded" /\ pc = "cleanup_orphaned") =>
        IF DeletedStems = {}
        THEN ssh_calls = <<>> /\ Returned("cleanup_deleted") = {"False"}
        ELSE args.yes =>
                 /\ Len(ssh_calls) = 1
                 /\ ssh_calls[1].cmd = "rm -r"
                 /\ Elements(ssh_calls[1].stems) = DeletedStems
                 /\ Returned("cleanup_deleted") = {"True"}

Passes == {"cleanup_deleted", "cleanup_orphaned", "cleanup_duplicates",
           "cleanup_emptydir"}

\* The pass has handed a removal to ssh().
Removal(pass) ==
    CASE pass = "cleanup_deleted" ->
             \E i \in Calls("rm -r") : Elements(ssh_calls[i].stems) \subseteq DeletedStems
      [] pass = "cleanup_orphaned" -> Calls("rm orphans") # {}
      [] pass = "cleanup_duplicates" -> Calls("rm -rv") # {}
      [] pass = "cleanup_emptydir" ->
             \E i \in Calls("rm -r") : Elements(ssh_calls[i].stems) \subseteq LoadedStems

\* C9: at the end of the clean mode each of the four passes has returned True
\* exactly when it issued a removal, and the restart was issued only if some
\* pass issued a removal.
C9_PassesReportRemovals ==
    (status = "loaded" /\ pc = "done" /\ args.mode = "clean") =>
        /\ \A pass \in Passes : (Returned(pass) = {"True"}) <=> Removal(pass)
        /\ Calls("restart") # {} => \E pass \in Passes : Removal(pass)

\* The candidates of the md5sum at hand that have metadata, and the value of
\* the lastModified of one.
Group == {u \in Elements(locals.database[locals.md5]) : u \in DOMAIN metadata_by_uuid}

Modified(u) == int(metadata_by_uuid[u].lastModified).value

\* The operator answers the prompt for a group of two or more with "".
DefaultInput ==
    /\ pc = "duplicates_input"
    /\ Len(locals.tmp) >= 2
    /\ pc' = "duplicates_for"
    /\ "s" \in DOMAIN locals'
    /\ locals'.s = <<>>

\* The candidates are the members with metadata, latest lastModified first.
Ordered ==
    LET tmp == locals.tmp
    IN  /\ {tmp[j].u : j \in 1..Len(tmp)} = Group
        /\ Len(tmp) = Cardinality(Group)
        /\ \A j, k \in 1..Len(tmp) : j < k => Modified(tmp[j].u) >= Modified(tmp[k].u)
        /\ \A u \in Group : Modified(u) <= Modified(tmp[1].u)

\* The first candidate stays, the others leave by-id.
KeepsFirst ==
    LET keep == locals.tmp[1].u
    IN  /\ DOMAIN metadata_by_uuid' = DOMAIN metadata_by_uuid \ (Group \ {keep})
        /\ keep \in DOMAIN metadata_by_uuid'
        /\ keep \in xochitl'

\* C7 as stated: for a group of two or more candidates with metadata, the
\* candidates are ordered by lastModified descending, and on the empty input
\* the first is kept and every other one leaves the index and the storage.
C7_DefaultRemovesFromStorage ==
    [][DefaultInput =>
          /\ Ordered
          /\ KeepsFirst
          /\ xochitl' = xochitl \ (Group \ {locals.tmp[1].u})]_vars

\* C7 amended: the same, the storage removal being one rm per removed
\* candidate handed to ssh(), which leaves the storage alone in a dry run.
C7_DuplicateDefault ==
    [][DefaultInput =>
          LET others == Group \ {locals.tmp[1].u}
          IN  /\ Ordered
              /\ KeepsFirst
              /\ Len(ssh_calls') = Len(ssh_calls) + Cardinality(others)
              /\ \A u \in others :
                     \E i \in (Len(ssh_calls) + 1)..Len(ssh_calls') :
                         ssh_calls'[i] = [cmd |-> "rm -rv", stems |-> <<u>>,
                                          dry |-> args.dryrun]
              /\ xochitl' = IF args.dryrun THEN xochitl ELSE xochitl \ others]_vars

\* The candidates modified at 300, 100 and 200: the default kept the first
\* and removed the other two from by-id and from the device.
C7_Witness ==
    /\ pc = "duplicates_for"
    /\ ~args.dryrun
    /\ Len(raw) = 3
    /\ [i \in 1..3 |-> raw[i].metadata.lastModified]
           = << <<"3", "0", "0">>, <<"1", "0", "0">>, <<"2", "0", "0">> >>
    /\ "s" \in DOMAIN locals
    /\ locals.s = <<>>
    /\ [i \in 1..Len(locals.tmp) |-> locals.tmp[i].lastmodified] = <<300, 200, 100>>
    /\ DOMAIN metadata_by_uuid = {"u1"}
    /\ xochitl = {"u1"}
    /\ locals.deleted_uuids = <<"u3", "u2">>

---------------------------------------------------------------------------
(* Claims about cleanup_emptydir (specification SpecEmptydir).             *)

AllStems == {raw[i].path : i \in 1..Len(raw)}

MetadataOf(u) == raw[UuidRank(u)].metadata

Collections == {u \in AllStems : MetadataOf(u).type = "CollectionType"}

ChildrenOf(u) == {v \in AllStems : MetadataOf(v).parent = u}

PathOf(u) == fullpath(MetadataOf(u), retrieve_metadata(raw).by_uuid)

\* The index that was loaded holds a chain of nested collections, each
\* containing only the next and the innermost nothing, the outermost at the
\* root, and besides the chain only documents at the root.
Chain ==
    /\ Collections # {}
    /\ Cardinality({c \in Collections : MetadataOf(c).parent = ""}) = 1
    /\ \A c \in Collections :
           /\ ChildrenOf(c) \subseteq Collections
           /\ Cardinality(ChildrenOf(c)) <= 1
    /\ \A u \in AllStems :
           /\ MetadataOf(u).parent \in {""} \cup Collections
           /\ PathOf(u).err = "ok"

Depth(c) == Len(PathOf(c).path) \div 2

\* What the first call prints for a chain: N iterations that each find one
\* collection, the innermost first, and one more that finds none.
FirstRun ==
    LET N == Cardinality(Collections)
        found(k) == CHOOSE c \in Collections : Depth(c) = N + 1 - k
    IN  [i \in 1..(2 * N + 1) |->
            IF i % 2 = 1 THEN Line("iteration", <<(i + 1) \div 2>>)
            ELSE Line("empty:", PathOf(found(i \div 2)).path)]

\* What every later call prints: one iteration that finds none.
LaterRuns(r) ==
    [i \in 1..(2 * (r - 1)) |->
        IF i % 2 = 1 THEN Line("iteration", <<1>>)
        ELSE Line("No empty directories found.", <<>>)]

ChainCleaned ==
    LET r == Len(returned)
    IN  /\ printed = FirstRun \o LaterRuns(r)
        /\ DOMAIN metadata_by_uuid = AllStems \ Collections
        /\ Collections \cap DOMAIN metadata_by_parent = {}
        /\ IF r = 1
           THEN /\ Len(locals.deleted_uuids) = Cardinality(Collections)
                /\ Elements(locals.deleted_uuids) = Collections
           ELSE locals.deleted_uuids = <<>>
        /\ \A i \in 2..r : returned[i][2] = "False"
        /\ IF returned[1][2] = "True"
           THEN /\ Len(ssh_calls) = 1
                /\ ssh_calls[1].cmd = "rm -r"
                /\ Elements(ssh_calls[1].stems) = Collections
                /\ ssh_calls[1].dry = args.dryrun
                /\ xochitl = IF args.dryrun THEN AllStems ELSE AllStems \ Collections
           ELSE ssh_calls = <<>> /\ xochitl = AllStems

\* The while loop ends: it never starts a scan beyond the (N+1)-th in the
\* first call, nor beyond the first in a later call.
LoopEnds ==
    locals.empty_found =>
        locals.iteration <= (IF Len(returned) = 0 THEN Cardinality(Collections) ELSE 0) + 1

\* C6: on a chain of N >= 1 nested collections the while loop of the pass
\* ends; when the pass has returned, N iterations have each found one
\* collection and one more has found none, exactly the N collections have left
\* the index (and the storage, if the operator confirmed and the run is not
\* dry); every later call on that index finds nothing in one iteration,
\* removes nothing and returns False.
C6_EmptydirChain ==
    Chain =>
        /\ pc = "emptydir_while" => LoopEnds
        /\ pc = "restart" => ChainCleaned

\* A chain of three, the innermost listed first, removed from the index and
\* the device by the first call; the second call has returned.
C6_Witness ==
    /\ Len(raw) = 3
    /\ Collections = {"u1", "u2", "u3"}
    /\ [i \in 1..3 |-> raw[i].metadata.parent] = <<"u2", "u3", "">>
    /\ pc = "restart"
    /\ Len(returned) = 2
    /\ returned[1][2] = "True"
    /\ returned[2][2] = "False"
    /\ Len(printed) = 9
    /\ DOMAIN metadata_by_uuid = {}
    /\ xochitl = {}

---------------------------------------------------------------------------
(* Claims about cleanup_duplicates (specification SpecDup).                *)

\* The md5sums whose candidates were listed, and the members of some md5sums.
Processed ==
    {printed[i].arg[1] :
        i \in {j \in 1..Len(printed) : printed[j].msg = "found duplicates for md5sum"}}

Members(md5s) == UNION {Elements(locals.database[md5]) : md5 \in md5s}

\* The pass has returned and the last answer of the operator was "N".
Stopped ==
    /\ status = "loaded"
    /\ pc = "cleanup_emptydir"
    /\ "s" \in DOMAIN locals
    /\ locals.s = <<"N">>

\* C11: when the pass has returned after "N" at some group, the members of
\* that group and of the groups not reached are all still in by-id (those
\* that were loaded) and in the storage; every candidate removed for an
\* earlier group is out of by-id, has its rm, and is out of the storage unless
\* the run is dry; nothing was listed or asked after the stop; and the pass
\* returned True exactly when an earlier group had a removal.
C11_StopAll ==
    Stopped =>
        LET later   == duplicates_of(locals.database) \ Processed
            removed == Elements(locals.deleted_uuids)
        IN  /\ \A u \in Members(later \cup {locals.md5}) :
                   /\ u \in LoadedStems => u \in DOMAIN metadata_by_uuid
                   /\ u \in xochitl
                   /\ u \notin removed
            /\ \A u \in removed :
                   /\ u \notin DOMAIN metadata_by_uuid
                   /\ \E i \in 1..Len(ssh_calls) : ssh_calls[i].stems = <<u>>
                   /\ ~args.dryrun => u \notin xochitl
            /\ Len(ssh_calls) = Len(locals.deleted_uuids)
            /\ DOMAIN metadata_by_uuid = LoadedStems \ removed
            /\ printed[Len(printed) - 1] = Line("cleanup stopped.", <<>>)
            /\ printed[Len(printed)].msg = "Removed duplicates in total."
            /\ returned = << <<"cleanup_duplicates",
                               IF removed # {} THEN "True" ELSE "False">> >>

\* Two groups of two: the default answered for the first, "N" for the second.
C11_Witness ==
    /\ Stopped
    /\ Len(raw) = 4
    /\ DOMAIN locals.database = {"m1", "m2"}
    /\ Processed = {"m1", "m2"}
    /\ Len(locals.tmp) = 2
    /\ Len(locals.deleted_uuids) = 1
    /\ Cardinality(DOMAIN metadata_by_uuid) = 3
    /\ Cardinality(xochitl) = 3
    /\ returned[1][2] = "True"

---------------------------------------------------------------------------
(* Claims about broken parent chains in the clean mode (SpecClean).        *)

\* The records of by-id with an ancestor that is not in by-id.
BrokenChain ==
    {u \in DOMAIN metadata_by_uuid :
        fullpath(metadata_by_uuid[u], metadata_by_uuid).err = "KeyError"}

\* C12: fullpath fails with KeyError on a record whose parent is not in
\* by-id, and no cleanup pass is left by that failure: the run of the clean
\* mode never ends in KeyError.
C12_BrokenChainSkipped ==
    /\ \A u \in DOMAIN metadata_by_uuid :
           metadata_by_uuid[u].parent \notin {""} \cup DOMAIN metadata_by_uuid
               => u \in BrokenChain
    /\ status # "KeyError"

---------------------------------------------------------------------------
(* Claims about the pull (specification SpecTree).                         *)

\* The last component of each document of the command line, and those of
\* them that are a name of by-name.
Targets == [i \in 1..Len(args.documents) |-> args.documents[i][Len(args.documents[i])]]

Matched == SelectSeq(Targets, LAMBDA target : target \in DOMAIN metadata_by_name)

\* C13: a pull is not ended by an anchor; its roots are the anchors whose name
\* is in by-name, in order, each of the kind of a record of that name; and,
\* with nothing excluded, build gives every collection node the children that
\* by-parent holds for its id, each under its record's id, every document
\* child under a name ending in ".pdf".
C13_PullConstruction ==
    (args.mode = "pull" /\ args.if_exists \in {"skip", "overwrite"}) =>
        /\ pc = "pull_build" =>
               /\ status = "loaded"
               /\ Len(root) = Len(Matched)
               /\ \A i \in 1..Len(Matched) :
                      /\ root[i].name = Matched[i]
                      /\ \E u \in DOMAIN metadata_by_name[Matched[i]] :
                             metadata_by_name[Matched[i]][u].type = root[i].doctype
        /\ (pc = "done" /\ status = "loaded" /\ args.exclude_patterns = <<>>) =>
               \A n \in Range(nodes_of_list(root, 1, "")) :
                   /\ n.node.doctype = "CollectionType" =>
                          {n.node.children[i].id : i \in 1..Len(n.node.children)}
                              = DOMAIN get_metadata_by_parent(n.node.id, metadata_by_parent)
                   /\ (n.key # "" /\ n.node.doctype = "DocumentType") =>
                          endswith_pdf(n.node.name)

---------------------------------------------------------------------------
(* Claims about groups with members lacking metadata (SpecDup).            *)

\* The members of the md5sum at hand that are in by-id, in listing order.
WithMetadata ==
    SelectSeq(locals.database[locals.md5], LAMBDA u : u \in DOMAIN metadata_by_uuid)

\* C14: at the end of the listing of a group the candidates are its members
\* that are in by-id; the operator is asked only when two or more remain; a
\* single candidate is kept without an answer being read, nothing leaving the
\* index or the storage and no rm being issued.
C14_MembersLackingMetadata ==
    [][pc = "duplicates_input" =>
          /\ Len(locals.database[locals.md5]) >= 2
          /\ {locals.tmp[i].u : i \in 1..Len(locals.tmp)} = Elements(WithMetadata)
          /\ Len(locals.tmp) = Len(WithMetadata)
          /\ Len(locals.tmp) # 1 => Len(locals.tmp) >= 2
          /\ Len(locals.tmp) = 1 =>
                 /\ pc' = "duplicates_for"
                 /\ locals' = locals
                 /\ UNCHANGED <<index, xochitl, ssh_calls, status>>]_vars

---------------------------------------------------------------------------
(* Claims about the consistency of by-id and by-parent (Spec).             *)

\* The ids of by-id whose record has the parent p.
WithParent(p) == {u \in DOMAIN metadata_by_uuid : metadata_by_uuid[u].parent = p}

ParentKeys == (Uuids(MaxRecords) \cup DOMAIN metadata_by_parent) \ {""}

\* C15: after the load and any removals, for every parent key p but "",
\* by-parent has an entry for p exactly when a record of by-id has the parent
\* p, the entry is not empty, and it holds exactly those records.
C15_ByParentConsistent ==
    status = "loaded" =>
        \A p \in ParentKeys :
            /\ p \in DOMAIN metadata_by_parent <=> WithParent(p) # {}
            /\ p \in DOMAIN metadata_by_parent =>
                   /\ DOMAIN metadata_by_parent[p] # {}
                   /\ DOMAIN metadata_by_parent[p] = WithParent(p)
                   /\ \A u \in WithParent(p) :
                          metadata_by_parent[p][u] = metadata_by_uuid[u]

\* Three records were loaded, two inside the third; one of the two and then
\* the third have been removed, so that one key of by-parent has gone and one
\* is left with the record that stays.
C15_Witness ==
    /\ status = "loaded"
    /\ Len(raw) = 3
    /\ \A i \in 1..3 : Live(i)
    /\ DOMAIN metadata_by_uuid = {"u2"}
    /\ raw[2].metadata.parent = "u1"
    /\ raw[3].metadata.parent = "u1"
    /\ raw[1].metadata.parent = "u3"
    /\ DOMAIN metadata_by_parent = {"u1"}
    /\ DOMAIN metadata_by_parent["u1"] = {"u2"}

---------------------------------------------------------------------------
(* Claims about what cleanup_emptydir removes (SpecEmptydir).              *)

\* The records below u in the index that was loaded, n levels deep.
RECURSIVE DescendantsOf(_, _)
DescendantsOf(u, n) ==
    IF n = 0 THEN {}
    ELSE ChildrenOf(u) \cup UNION {DescendantsOf(v, n - 1) : v \in ChildrenOf(u)}

Documents == AllStems \ Collections

\* The collections with no document below them.
EmptySubtrees ==
    {c \in Collections : DescendantsOf(c, Len(raw)) \cap Documents = {}}

\* Every chain of parents ends at the root.
ChainsResolve == \A u \in AllStems : PathOf(u).err = "ok"

Removed == AllStems \ DOMAIN metadata_by_uuid

\* C16: on a loaded index whose chains of parents all end at the root,
\* cleanup_emptydir never removes a document nor a collection with a
\* document below it; when it returns, it has removed exactly the collections
\* with no document below them, and every collection left in by-id has a
\* child in by-parent.
C16_EmptydirRemovesEmptySubtrees ==
    ChainsResolve =>
        /\ status = "loaded"
        /\ Documents \subseteq DOMAIN metadata_by_uuid
        /\ Removed \subseteq EmptySubtrees
        /\ pc = "restart" =>
               /\ Removed = EmptySubtrees
               /\ Len(returned) = 1 => /\ Elements(locals.deleted_uuids) = EmptySubtrees
                                       /\ Len(locals.deleted_uuids) =
                                              Cardinality(EmptySubtrees)
               /\ \A c \in Collections \cap DOMAIN metadata_by_uuid :
                      /\ c \in DOMAIN metadata_by_parent
                      /\ DOMAIN metadata_by_parent[c] # {}

\* A collection holding a document and an empty collection: the first call
\* has returned, having removed the empty collection only.
C16_Witness ==
    /\ Len(raw) = 3
    /\ ChainsResolve
    /\ Collections = {"u1", "u3"}
    /\ [i \in 1..3 |-> raw[i].metadata.parent] = <<"", "u1", "u1">>
    /\ pc = "restart"
    /\ Len(returned) = 1
    /\ locals.deleted_uuids = <<"u3">>
    /\ DOMAIN metadata_by_uuid = {"u1", "u2"}
    /\ DOMAIN metadata_by_parent["u1"] = {"u2"}

---------------------------------------------------------------------------
(* Claims about the question of cleanup_emptydir (SpecEmptydir).           *)

\* The step in which the pass, having found empty collections, asks and
\* returns.
Asks ==
    /\ pc = "emptydir_while"
    /\ pc' = "restart"
    /\ Len(locals.deleted_uuids) > 0

Answer == returned'[Len(returned')][2]

Found == Elements(locals.deleted_uuids)

\* The collections found are neither in by-id, nor keys of by-parent, nor
\* listed under a key of by-parent other than "".
OutOfIndex ==
    \A u \in Found :
        /\ u \notin DOMAIN metadata_by_uuid
        /\ u \notin DOMAIN metadata_by_parent
        /\ \A p \in DOMAIN metadata_by_parent \ {""} :
               u \notin DOMAIN metadata_by_parent[p]

\* Those of them that were at the root are still listed under "".
RootsListed ==
    \A u \in Found :
        MetadataOf(u).parent = "" =>
            /\ "" \in DOMAIN metadata_by_parent
            /\ u \in DOMAIN metadata_by_parent[""]

\* The statement as it was made: when the operator declines, the
\* collections found are nowhere in by-id nor in by-parent.
C17_DeclinedAbsentFromIndex ==
    [][Asks /\ Answer = "False" =>
           \A u \in Found :
               /\ u \notin DOMAIN metadata_by_uuid
               /\ u \notin DOMAIN metadata_by_parent
               /\ \A p \in DOMAIN metadata_by_parent :
                      u \notin DOMAIN metadata_by_parent[p]]_vars

\* C17: every empty collection found has left the index when the operator
\* is asked, and the question changes nothing in the index; when the operator
\* declines, no storage removal is issued, the pass returns False and the
\* collections are still on the storage, while they are in neither by-id nor
\* by-parent, but for those at the root, which are still listed under the key
\* "" of by-parent; the operator cannot decline under --yes, and when the
\* answer is yes one removal of all of them is issued.
C17_IndexMutatedBeforeAsk ==
    [][Asks =>
           /\ OutOfIndex
           /\ RootsListed
           /\ UNCHANGED <<index, locals>>
           /\ Answer \in {"True", "False"}
           /\ Answer = "False" =>
                  /\ ~args.yes
                  /\ UNCHANGED <<ssh_calls, xochitl>>
                  /\ Found \subseteq xochitl'
           /\ Answer = "True" =>
                  ssh_calls' = Append(ssh_calls, [cmd   |-> "rm -r",
                                                  stems |-> locals.deleted_uuids,
                                                  dry   |-> args.dryrun])]_vars

\* The operator has declined the removal of two nested collections, the
\* outer one at the root beside a document: both have left by-id, the outer
\* one is still listed under "", and both are still on the storage.
C17_Witness ==
    /\ Len(raw) = 3
    /\ Collections = {"u1", "u2"}
    /\ [i \in 1..3 |-> raw[i].metadata.parent] = <<"", "u1", "">>
    /\ pc = "restart"
    /\ returned = <<<<"cleanup_emptydir", "False">>>>
    /\ locals.deleted_uuids = <<"u2", "u1">>
    /\ ssh_calls = <<>>
    /\ xochitl = {"u1", "u2", "u3"}
    /\ DOMAIN metadata_by_uuid = {"u3"}
    /\ DOMAIN metadata_by_parent = {""}
    /\ DOMAIN metadata_by_parent[""] = {"u1", "u3"}

====
